---------------------------- MODULE Spec2Model ----------------------------
(***************************************************************************)
(* The tier worker of the loopy tier solver                                *)
(* (src/core/solvers/tier_solver/tier_worker.c).                           *)
(*                                                                         *)
(* One tier (tier 1) with the positions 0..NumPos-1 is solved; it has one  *)
(* child tier (tier 2): canonical, with the positions 0..NumChildPos-1 and *)
(* its records in the database, or symmetric to a canonical tier (tier 3)  *)
(* of NumSymPos positions.  The game API is an oracle that                 *)
(* Init draws from a bounded family of games.  The OpenMP build is         *)
(* modelled: the parallel loops of phases 1, 3 and 5 write disjoint cells  *)
(* and are single steps; in phase 4 every atomic operation on a counter is *)
(* a step of its own and the threads interleave freely.  The frontiers    *)
(* are the set of their records; a separate part follows them as arrays   *)
(* of buckets and dividers, one iteration of a parallel loop at a time.   *)
(* The hashing of tiers of the game Quixo (src/games/quixo/quixo.c) is a   *)
(* part of its own, over the piece configurations QuixoInit goes through. *)
(***************************************************************************)
EXTENDS Integers, Sequences, FiniteSets, TLC

----------------------------------------------------------------------------
(* Bounds of the model *)

\* Number of positions of the tier being solved (GetTierSize of tier 1).
NumPos == 2
\* Number of positions of the child tier (GetTierSize of tier 2).
NumChildPos == 1
\* Number of positions of a child tier that has a symmetric canonical tier,
\* and of a canonical child tier scanned by several threads.
NumSymPos == 2
\* Largest remoteness of a record in the frontiers followed record by
\* record, largest number of FrontierAdd calls, largest number of parents a
\* processed record decides, largest number of child tiers.
MaxFrRemoteness == 1
MaxFrAdds == 3
MaxFrParents == 1
MaxFrChildTiers == 2
\* Largest number of canonical children of a position in the game family.
MaxChildren == 2
\* Largest number of canonical children outside the modelled positions.
MaxFurtherChildren == 254
\* omp_get_max_threads().
NumThreads == 2
\* Number of TierWorkerSolve calls in one behaviour.
MaxCalls == 2
\* Number of TierWorkerInit calls in one behaviour.
MaxInits == 2
MaxCmpCalls == 1
MaxCmpInits == 1
MaxRmaxCalls == 1
MaxLoopyCalls == 1
MaxVICalls == 1
MaxVIInits == 1
\* Largest remoteness of a record of the child tier met by the scan of
\* VIStep1LoadChildren.
MaxScanRemoteness == 2
MaxMpiInits == 1
MaxCommands == 3
MaxTestInits == 1
MaxTests == 2
NumSeeds == 2
MaxOrderTests == 1
MaxPushCalls == 1
MaxPushInits == 1

----------------------------------------------------------------------------
(* Program constants *)

kRemotenessMax == 1023
kFrontierSize == kRemotenessMax + 1
kIllegalSize == -1
kIllegalTier == -1
UCHAR_MAX == 255
kTestSizeMax == 1000

kUndecided == "undecided"
kWin == "win"
kLose == "lose"
kTie == "tie"
kDraw == "draw"
Value == {kUndecided, kWin, kLose, kTie, kDraw}

kNoError == "kNoError"
kRuntimeError == "kRuntimeError"

kDbTierStatusSolved == "solved"
kDbTierStatusCorrupted == "corrupted"
kDbTierStatusMissing == "missing"

----------------------------------------------------------------------------
(* Positions, tiers, records *)

Pos == 0 .. (NumPos - 1)
CPos == 0 .. (NumChildPos - 1)
\* The positions of a child tier that is not canonical, and of its
\* canonical tier.
SymPos == 0 .. (NumSymPos - 1)
\* Tier 1 is the tier to solve, tier 2 its only child tier.
TierIds == <<1, 2>>
TiersToSolve == {TierIds[1]}
ChildTierOf == TierIds[2]
\* The tier a non-canonical child tier is symmetric to.
SymmetricTierOf == 3
\* The tier positions a move can lead to.
MoveTP == {<<1, p>> : p \in Pos} \cup {<<ChildTierOf, c>> : c \in CPos}
AllTP == MoveTP \cup {<<ChildTierOf, c>> : c \in SymPos}
Threads == 1 .. NumThreads

Rec(v, r) == [value |-> v, remoteness |-> r]
EmptyTable == [p \in Pos |-> Rec(kUndecided, 0)]

\* Conversion of an int to unsigned char (the type of a counter cell).
ToUChar(n) == n % (UCHAR_MAX + 1)

\* The elements of a set of positions as an ascending sequence.
RECURSIVE SetToSeq(_)
SetToSeq(S) ==
    IF S = {} THEN <<>>
    ELSE LET m == CHOOSE x \in S : \A y \in S : x <= y
         IN  <<m>> \o SetToSeq(S \ {m})

----------------------------------------------------------------------------
VARIABLES
    game,                    \* the game API: per position of tier 1
    tiers,                   \* the game API: the child tier's symmetry
    fr,                      \* the frontiers record by record, per thread
    quixo,                   \* Quixo's tier hashing: a piece configuration
    disk,                    \* the database: per tier, status and records
    current_api,             \* current_api.GetCanonicalParentPositions
    this_tier,
    this_tier_size,
    child_tiers,
    frontier_arrays,         \* state of win_/lose_/tie_frontiers
    frontier,                \* records held by the frontiers
    num_undecided_children,
    reverse_graph,
    use_reverse_graph,
    num_threads,
    solving,                 \* the database's in-memory solving table
    pc,                      \* position in TierWorkerSolve
    args,                    \* arguments of the running/last call
    ret,
    solved,
    level,                   \* bucket being pushed in phase 4
    pending,                 \* records of that bucket not yet taken
    helper_success,          \* `success` of PushFrontierHelper
    thr,                     \* per-thread position inside Process*Position
    hist,                    \* what the running/last call did
    nwrites,                 \* record writes per position in this call
    entry,                   \* module state at entry of the call
    result,                  \* table handed to the flush of the last call
    solution,                \* last table computed with each source of parents
    ncalls,
    ninits,
    ref,                     \* the reference table read by the last CompareDb
    mpi,                     \* TierWorkerMpiServe: position, command, messages
    vi,                      \* state of the value-iteration solver
    test                     \* state of TierWorkerTest

module_vars == <<current_api, this_tier, this_tier_size, child_tiers,
                 frontier_arrays, frontier, num_undecided_children,
                 reverse_graph, use_reverse_graph, num_threads>>
call_vars == <<pc, args, ret, solved>>
push_vars == <<level, pending, helper_success, thr>>
ghost_vars == <<hist, nwrites, entry, result, solution>>
ext_vars == <<ref, mpi, vi, test>>
vars == <<game, tiers, fr, quixo, disk, module_vars, solving, call_vars, push_vars,
          ghost_vars, ncalls, ninits, ext_vars>>

----------------------------------------------------------------------------
(* The game API (an oracle fixed by Init) *)

IsLegalPosition(tp) == game[tp[2]].legal
GetCanonicalPosition(tp) == game[tp[2]].canon
Primitive(tp) == game[tp[2]].prim
GetCanonicalChildPositions(tp) == game[tp[2]].kids
\* The canonical children of a position that lie outside the modelled part
\* of the child tier: positions the child tier's database records as draw.
FurtherChildren(tp) == game[tp[2]].more
GetNumberOfCanonicalChildPositions(tp) ==
    Cardinality(game[tp[2]].kids) + FurtherChildren(tp)
GetTierSize(tier) == IF tier = 1 THEN NumPos ELSE tiers.size
GetChildTiers(tier) == IF tier = 1 THEN <<ChildTierOf>> ELSE <<>>
GetCanonicalTier(tier) == IF tier = ChildTierOf THEN tiers.canonical ELSE tier
\* GetPositionInSymmetricTier of a position of the tier being solved or
\* tested, asked for that same tier; of a position of the canonical tier
\* of the child tier, asked for the child tier.
GetPositionInSymmetricTier(tp, tier) ==
    IF tp[1] = 1 THEN game[tp[2]].symm ELSE tiers.symm[tp[2]]
IsCanonicalTier(tier) == GetCanonicalTier(tier) = tier

IsCanonicalPosition(position) ==
    GetCanonicalPosition(<<this_tier, position>>) = position

\* A position of tier 1 that the scan does not skip.
Valid(p) == game[p].legal /\ game[p].canon = p
Inner(p) == Valid(p) /\ game[p].prim = kUndecided

\* The parents of `child` in tier 1 by the move relation.
TrueParents(child) == {p \in Pos : Inner(p) /\ child \in game[p].kids}

\* A game-supplied GetCanonicalParentPositions: the parents by the move
\* relation plus every position of the tier that is illegal, non-canonical
\* or primitive (un-moving does not filter them; the solver and
\* TierWorkerTest skip them).
GameParents(child) == TrueParents(child) \cup {p \in Pos : ~Inner(p)}

----------------------------------------------------------------------------
(* The family of games *)

KidSets == {s \in SUBSET MoveTP : Cardinality(s) <= MaxChildren}

PositionOptions(p) ==
    {[legal |-> FALSE, canon |-> p, prim |-> kUndecided, kids |-> {},
      symm |-> p, more |-> 0]}
    \cup (IF p = NumPos - 1 /\ p > 0
          THEN {[legal |-> TRUE, canon |-> 0, prim |-> kUndecided, kids |-> {},
                 symm |-> p, more |-> 0]}
          ELSE {})
    \cup {[legal |-> TRUE, canon |-> p, prim |-> v, kids |-> {}, symm |-> p, more |-> 0] :
            v \in {kWin, kLose, kTie}}
    \cup {[legal |-> TRUE, canon |-> p, prim |-> kUndecided, kids |-> k,
           symm |-> p, more |-> 0] : k \in KidSets}

\* Children are legal canonical positions; a symmetric position has a legal
\* canonical representative.
ConsistentGame(g) ==
    /\ \A p \in Pos : \A k \in g[p].kids :
          k[1] = 1 => (g[k[2]].legal /\ g[k[2]].canon = k[2])
    /\ \A p \in Pos : g[p].canon # p =>
          (g[g[p].canon].legal /\ g[g[p].canon].canon = g[p].canon)

Games == {g \in [Pos -> UNION {PositionOptions(p) : p \in Pos}] :
            /\ \A p \in Pos : g[p] \in PositionOptions(p)
            /\ ConsistentGame(g)}

ChildRecords ==
    {Rec(v, r) : v \in {kWin, kLose, kTie}, r \in {0, 1}} \cup {Rec(kDraw, 0)}
ChildDbs == [CPos -> ChildRecords]

----------------------------------------------------------------------------
(* The database *)

DbManagerTierStatus(tier) == disk[tier].status
DbManagerProbeValue(tp) == disk[tp[1]].rec[tp[2]].value
DbManagerProbeRemoteness(tp) == disk[tp[1]].rec[tp[2]].remoteness

NoSolvingTier == [exists |-> FALSE, rec |-> EmptyTable]
DbManagerCreateSolvingTier == [exists |-> TRUE, rec |-> EmptyTable]
DbManagerSetValue(tbl, position, value) ==
    [tbl EXCEPT !.rec[position].value = value]
DbManagerSetRemoteness(tbl, position, remoteness) ==
    [tbl EXCEPT !.rec[position].remoteness = remoteness]
SetRecord(tbl, position, value, remoteness) ==
    DbManagerSetRemoteness(DbManagerSetValue(tbl, position, value),
                           position, remoteness)

----------------------------------------------------------------------------
(* Frontier and reverse graph *)

FrontierRecord(kind, position, remoteness, child_index) ==
    [kind |-> kind, pos |-> position, rmt |-> remoteness, idx |-> child_index]

\* Variants of the order: the win bucket of a remoteness before its lose
\* bucket; the tie frontier under the name of the win frontier.
BucketOrderWinFirst(kind, remoteness) ==
    CASE kind = "win" -> 2 * remoteness
      [] kind = "lose" -> 2 * remoteness + 1
      [] OTHER -> 2 * kFrontierSize + remoteness
FrontierOfValueTieAsWin(value) ==
    CASE value = kWin -> "win"
      [] value = kLose -> "lose"
      [] value = kTie -> "win"
      [] OTHER -> "none"

\* The frontier a record with the given value goes to.
FrontierOfValue(value) ==
    CASE value = kWin -> "win"
      [] value = kLose -> "lose"
      [] value = kTie -> "tie"
      [] OTHER -> "none"

EmptyReverseGraph == [t \in AllTP |-> {}]
\* The frontiers are not followed record by record.
NoFrontiers == [at |-> "off"]
\* A canonical child tier of NumChildPos positions.
CanonicalChildTier ==
    [canonical |-> ChildTierOf, size |-> NumChildPos,
     symm |-> [c \in CPos |-> c]]
NoReverseGraph == [state |-> "none", bags |-> EmptyReverseGraph]
ReverseGraphInit == [state |-> "init", bags |-> EmptyReverseGraph]
ReverseGraphAdd(rg, child, parent) ==
    [rg EXCEPT !.bags[child] = @ \cup {parent}]
ReverseGraphPopParentsOf(rg, child) == rg.bags[child]
ReverseGraphAfterPop(rg, child) == [rg EXCEPT !.bags[child] = {}]
ReverseGraphDestroy(rg) ==
    [state |-> IF rg.state = "none" THEN "none" ELSE "destroyed",
     bags |-> EmptyReverseGraph]

NoCounters == [alloc |-> FALSE, cell |-> [p \in Pos |-> 0]]
NoThread == [st |-> "idle", parents |-> <<>>, cur |-> 0]
NoLevel == [active |-> FALSE, kind |-> "lose", r |-> 0]
NoHist == [fault |-> FALSE, step5 |-> FALSE, flushed |-> FALSE,
           api_called |-> FALSE, table_used |-> FALSE, status |-> "none",
           mode |-> "none", flush_failed |-> FALSE, compare |-> "none",
           cmp_pos |-> 0, buckets |-> <<>>, start |-> [p \in Pos |-> 0],
           got |-> [p \in Pos |-> <<>>], ops |-> [p \in Pos |-> 0],
           calls |-> [tp \in AllTP |-> 0]]
NoSolution == [done |-> FALSE, rec |-> EmptyTable]
NoMpi == [at |-> "off", command |-> "none", sent |-> <<>>, ncommands |-> 0]
NoVIThread == [st |-> "idle", pos |-> 0]
NoVI == [calls |-> 0, largest_win_lose_remoteness |-> 0,
         largest_tie_remoteness |-> 0, loaded |-> FALSE, kind |-> "none",
         iteration |-> 0, updated |-> FALSE, failed |-> FALSE, todo |-> {},
         thr |-> [t \in Threads |-> NoVIThread], raced |-> FALSE,
         done |-> FALSE, rec |-> EmptyTable]
NoTest == [mt |-> 0, log |-> <<>>, supplied |-> "NULL"]
NoQuixo == [at |-> "off"]

----------------------------------------------------------------------------
\* The state after construction of the variables that no family of initial
\* states sets.
InitOthers ==
    /\ current_api = "NULL"
    /\ this_tier_size = 0
    /\ frontier_arrays = "null"
    /\ frontier = {}
    /\ num_undecided_children = NoCounters
    /\ reverse_graph = NoReverseGraph
    /\ use_reverse_graph = FALSE
    /\ solving = NoSolvingTier
    /\ pc = "idle"
    /\ args = [tier |-> 0, force |-> FALSE, compare |-> FALSE]
    /\ ret = kNoError
    /\ solved = FALSE
    /\ level = NoLevel
    /\ pending = {}
    /\ helper_success = TRUE
    /\ thr = [t \in Threads |-> NoThread]
    /\ hist = NoHist
    /\ nwrites = [p \in Pos |-> 0]
    /\ entry = [module |-> <<>>, disk |-> <<>>]
    /\ result = EmptyTable
    /\ solution = [m \in {"game", "reverse_graph"} |-> NoSolution]
    /\ ncalls = 0
    /\ ninits = 0
    /\ ref = EmptyTable
    /\ mpi = NoMpi
    /\ vi = NoVI
    /\ test = NoTest

\* The state after construction, for a family of games, of symmetries of
\* the child tier and of databases.
InitWorld(games, symmetries, disks) ==
    /\ game \in games
    /\ tiers \in symmetries
    /\ fr = NoFrontiers
    /\ quixo = NoQuixo
    /\ disk \in disks
    /\ this_tier = 0
    /\ child_tiers = [size |-> 0, array |-> <<>>]
    /\ num_threads = 0
    /\ InitOthers


\* The child tier is canonical and solved with the records `cdb`.
DiskOf(cdb) ==
    [t \in {1, ChildTierOf} |->
       IF t = ChildTierOf
       THEN [status |-> kDbTierStatusSolved, rec |-> cdb]
       ELSE [status |-> kDbTierStatusMissing, rec |-> EmptyTable]]

InitState(games, child_dbs) ==
    InitWorld(games, {CanonicalChildTier}, {DiskOf(cdb) : cdb \in child_dbs})

Init == InitState(Games, ChildDbs)

\* The child tier is symmetric to the canonical tier SymmetricTierOf by a
\* one-to-one map of positions.
SymmetricChildTiers ==
    {[canonical |-> SymmetricTierOf, size |-> NumSymPos, symm |-> f] :
       f \in {g \in [SymPos -> SymPos] :
                \A a, b \in SymPos : g[a] = g[b] => a = b}}

\* The child tier has no database; its canonical tier is solved with the
\* records `sdb`.
SymmetricDiskOf(sdb) ==
    [t \in {1, ChildTierOf, SymmetricTierOf} |->
       IF t = SymmetricTierOf
       THEN [status |-> kDbTierStatusSolved, rec |-> sdb]
       ELSE [status |-> kDbTierStatusMissing,
             rec |-> IF t = 1 THEN EmptyTable
                     ELSE [c \in SymPos |-> Rec(kUndecided, 0)]]]

SymmetricChildDbs ==
    [SymPos -> {Rec(v, 0) : v \in {kWin, kLose, kTie, kDraw}}]

InitSym ==
    InitWorld(Games, SymmetricChildTiers,
              {SymmetricDiskOf(sdb) : sdb \in SymmetricChildDbs})

----------------------------------------------------------------------------
(* TierWorkerInit and the entry of TierWorkerSolve *)

ModuleState ==
    <<current_api, this_tier, this_tier_size, child_tiers, frontier_arrays,
      frontier, num_undecided_children, reverse_graph, use_reverse_graph,
      num_threads>>

\* memcpy(&current_api, api, ...): `api` is what the game supplies as
\* GetCanonicalParentPositions ("NULL" when it supplies none).
TierWorkerInit(api) ==
    /\ pc = "idle"
    /\ ninits < MaxInits
    /\ current_api' = api
    /\ ninits' = ninits + 1
    /\ test' = [test EXCEPT !.supplied = api]
    /\ UNCHANGED <<game, tiers, fr, quixo, disk, this_tier, this_tier_size, child_tiers,
                   frontier_arrays, frontier, num_undecided_children,
                   reverse_graph, use_reverse_graph, num_threads, solving,
                   call_vars, push_vars, ghost_vars, ncalls, ref, mpi, vi>>

\* The test that skips an already solved tier.
AlreadySolved(force, status) == ~force /\ status = kDbTierStatusSolved

\* The entry of TierWorkerSolve, whoever calls it.
TierWorkerSolveEntry(tier, force, compare) ==
    /\ pc = "idle"
    /\ ninits > 0
    /\ ncalls < MaxCalls
    /\ ncalls' = ncalls + 1
    /\ args' = [tier |-> tier, force |-> force, compare |-> compare]
    /\ solved' = FALSE
    /\ IF AlreadySolved(force, DbManagerTierStatus(tier))
       THEN ret' = kNoError /\ pc' = "bailout"
       ELSE ret' = kRuntimeError /\ pc' = "step0"
    /\ hist' = [NoHist EXCEPT !.status = DbManagerTierStatus(tier)]
    /\ nwrites' = [p \in Pos |-> 0]
    /\ entry' = [module |-> ModuleState, disk |-> disk]
    /\ result' = EmptyTable
    /\ UNCHANGED <<game, tiers, fr, quixo, disk, module_vars, solving, push_vars, solution,
                   ninits>>

\* A direct call of TierWorkerSolve (not from TierWorkerMpiServe).
TierWorkerSolve(tier, force, compare) ==
    /\ mpi.at = "off"
    /\ TierWorkerSolveEntry(tier, force, compare)
    /\ UNCHANGED ext_vars

----------------------------------------------------------------------------
(* Phase 0 *)

Step0Outcomes == {"ok", "GetChildTiers", "ReverseGraphInit", "malloc",
                  "FrontierInit"}

\* Step0_0InitFrontiers: the state of the three frontier arrays after it.
Step0_0InitFrontiers(outcome) ==
    CASE outcome = "malloc" -> "malloc_failed"
      [] outcome = "FrontierInit" -> "init_failed"
      [] OTHER -> "init"

Step0Initialize(outcome) ==
    LET got == GetChildTiers(args.tier)
        urg == (current_api = "NULL")
        past_children == outcome # "GetChildTiers"
        past_graph == past_children /\ outcome # "ReverseGraphInit"
    IN
    /\ pc = "step0"
    /\ outcome = "ReverseGraphInit" => urg
    /\ this_tier' = args.tier
    /\ child_tiers' =
         IF ~past_children THEN [size |-> kIllegalSize, array |-> <<>>]
         ELSE IF ~past_graph THEN [size |-> Len(got), array |-> got]
         ELSE [size |-> Len(got) + 1, array |-> Append(got, args.tier)]
    /\ use_reverse_graph' = IF past_children THEN urg ELSE use_reverse_graph
    /\ reverse_graph' =
         IF past_children /\ urg
         THEN (IF past_graph THEN ReverseGraphInit
               ELSE [state |-> "init_failed", bags |-> EmptyReverseGraph])
         ELSE reverse_graph
    /\ current_api' = IF past_graph /\ urg THEN "reverse_graph" ELSE current_api
    /\ num_threads' = IF past_graph THEN NumThreads ELSE num_threads
    /\ frontier_arrays' =
         IF past_graph THEN Step0_0InitFrontiers(outcome) ELSE frontier_arrays
    /\ frontier' = IF past_graph THEN {} ELSE frontier
    /\ this_tier_size' =
         IF outcome = "ok" THEN GetTierSize(args.tier) ELSE this_tier_size
    /\ pc' = IF outcome = "ok" THEN "step1" ELSE "bailout"
    /\ hist' = [hist EXCEPT !.api_called = TRUE,
                            !.fault = @ \/ outcome # "ok",
                            !.mode = IF urg THEN "reverse_graph" ELSE "game"]
    /\ UNCHANGED <<game, tiers, fr, quixo, disk, num_undecided_children, solving, args, ret,
                   solved, push_vars, nwrites, entry, result, solution,
                   ncalls, ninits, ext_vars>>

----------------------------------------------------------------------------
(* Phase 1 *)

\* CheckAndLoadFrontier: whether it succeeds, given what the probes and
\* FrontierAdd return.
CheckAndLoadFrontierOk(value, remoteness, add_ok) ==
    IF remoteness < 0 THEN FALSE
    ELSE IF value = kUndecided \/ value = kDraw THEN TRUE
    ELSE IF value \in {kWin, kLose, kTie} THEN add_ok
    ELSE FALSE

\* CheckAndLoadFrontier: the records it adds to the frontiers.
CheckAndLoadFrontier(child_index, position, value, remoteness, add_ok) ==
    IF remoteness >= 0 /\ value \in {kWin, kLose, kTie} /\ add_ok
    THEN {FrontierRecord(FrontierOfValue(value), position, remoteness,
                         child_index)}
    ELSE {}

\* Variant of the test of Step1_1LoadNonCanonicalTier that also skips the
\* tie records of the canonical tier.
SkipsTieToo(value) == value \in {kUndecided, kDraw, kTie}

\* Step1_1LoadNonCanonicalTier: whether the record of a position of the
\* canonical tier is skipped before its remoteness is probed (line 462).
NoNeedToLoad(value) == value = kUndecided \/ value = kDraw

\* Variant of the translation of Step1_1LoadNonCanonicalTier that keeps the
\* position of the canonical tier.
PositionInCanonicalTier(canonical_tier_position, original_tier) ==
    canonical_tier_position[2]

\* Step1_1LoadNonCanonicalTier: the position a record of the canonical tier
\* is pushed under (lines 466-468).
PositionInNonCanonicalTier(canonical_tier_position, original_tier) ==
    GetPositionInSymmetricTier(canonical_tier_position, original_tier)

\* Step1_0LoadCanonicalTier or Step1_1LoadNonCanonicalTier over every child
\* tier. `bad` are the positions where a probe or FrontierAdd fails; `how`
\* says which of the two.
Step1LoadChildren(bad, how) ==
    LET num_child_tiers == child_tiers.size - 1
        Remoteness(tp) ==
            IF tp[2] \in bad /\ how = "probe" THEN -1
            ELSE DbManagerProbeRemoteness(tp)
        AddOk(tp) == ~(tp[2] \in bad /\ how = "FrontierAdd")
        \* The tier whose database is probed for a child tier, and the
        \* positions probed and not skipped.
        ProbedTier(child_tier) ==
            IF IsCanonicalTier(child_tier) THEN child_tier
            ELSE GetCanonicalTier(child_tier)
        Probed(child_tier) ==
            {position \in 0 .. (GetTierSize(ProbedTier(child_tier)) - 1) :
                IsCanonicalTier(child_tier)
                \/ ~NoNeedToLoad(DbManagerProbeValue(
                                    <<ProbedTier(child_tier), position>>))}
        Pushed(child_tier, position) ==
            IF IsCanonicalTier(child_tier) THEN position
            ELSE PositionInNonCanonicalTier(
                     <<ProbedTier(child_tier), position>>, child_tier)
        Loaded(child_index) ==
            LET child_tier == child_tiers.array[child_index]
                probed_tier == ProbedTier(child_tier)
            IN  UNION {CheckAndLoadFrontier(child_index,
                           Pushed(child_tier, position),
                           DbManagerProbeValue(<<probed_tier, position>>),
                           Remoteness(<<probed_tier, position>>),
                           AddOk(<<probed_tier, position>>)) :
                       position \in Probed(child_tier)}
        Ok(child_index) ==
            LET child_tier == child_tiers.array[child_index]
                probed_tier == ProbedTier(child_tier)
            IN  \A position \in Probed(child_tier) :
                  CheckAndLoadFrontierOk(
                      DbManagerProbeValue(<<probed_tier, position>>),
                      Remoteness(<<probed_tier, position>>),
                      AddOk(<<probed_tier, position>>))
        success == \A i \in 1 .. num_child_tiers : Ok(i)
    IN
    /\ pc = "step1"
    /\ bad = {} <=> how = "none"
    /\ bad # {} => ~success
    /\ frontier' = frontier \cup UNION {Loaded(i) : i \in 1 .. num_child_tiers}
    /\ pc' = IF success THEN "step2" ELSE "bailout"
    /\ hist' = [hist EXCEPT !.api_called = TRUE, !.fault = @ \/ ~success]
    /\ UNCHANGED <<game, tiers, fr, quixo, disk, current_api, this_tier, this_tier_size,
                   child_tiers, frontier_arrays, num_undecided_children,
                   reverse_graph, use_reverse_graph, num_threads, solving,
                   args, ret, solved, push_vars, nwrites, entry, result,
                   solution, ncalls, ninits, ext_vars>>

----------------------------------------------------------------------------
(* Phase 2 *)

Step2SetupSolverArrays(outcome) ==
    /\ pc = "step2"
    /\ solving' = IF outcome = "create" THEN solving
                  ELSE DbManagerCreateSolvingTier
    /\ num_undecided_children' =
         IF outcome = "ok"
         THEN [alloc |-> TRUE, cell |-> [p \in Pos |-> 0]]
         ELSE num_undecided_children
    /\ pc' = IF outcome = "ok" THEN "step3" ELSE "bailout"
    /\ hist' = [hist EXCEPT !.api_called = TRUE,
                            !.table_used = @ \/ outcome # "create",
                            !.fault = @ \/ outcome # "ok"]
    /\ UNCHANGED <<game, tiers, fr, quixo, disk, current_api, this_tier, this_tier_size,
                   child_tiers, frontier_arrays, frontier, reverse_graph,
                   use_reverse_graph, num_threads, args, ret, solved,
                   push_vars, nwrites, entry, result, solution, ncalls, ninits, ext_vars>>

----------------------------------------------------------------------------
(* Phase 3 *)

\* Step3_0CountChildren: the count it returns; -1 when a ReverseGraphAdd
\* fails.
Step3_0CountChildren(position, add_ok) ==
    LET tier_position == <<this_tier, position>>
    IN  IF ~use_reverse_graph
        THEN GetNumberOfCanonicalChildPositions(tier_position)
        ELSE IF GetNumberOfCanonicalChildPositions(tier_position) > 0 /\ ~add_ok
             THEN -1
             ELSE Cardinality(GetCanonicalChildPositions(tier_position))
                  + FurtherChildren(tier_position)

\* Variant that registers only the children inside the tier being solved.
Step3_0ChildrenAddedInTier(position, add_ok) ==
    IF use_reverse_graph /\ add_ok
    THEN {c \in GetCanonicalChildPositions(<<this_tier, position>>) :
            c[1] = this_tier}
    ELSE {}

\* Step3_0CountChildren: the children it registers `position` under in the
\* reverse graph.
Step3_0ChildrenAdded(position, add_ok) ==
    IF use_reverse_graph /\ add_ok
    THEN GetCanonicalChildPositions(<<this_tier, position>>)
    ELSE {}

\* The scan's test of a child count (line 562).
ChildCountOk(num_children) == num_children > 0

\* Whether the scan skips a position (lines 542-543).
ScanSkips(position) ==
    \/ ~IsLegalPosition(<<this_tier, position>>)
    \/ ~IsCanonicalPosition(position)

Step3ScanTier(fault) ==
    LET this_tier_index == child_tiers.size
        skipped == {p \in Pos : ScanSkips(p)}
        prims == {p \in Pos \ skipped : Primitive(<<this_tier, p>>) # kUndecided}
        inner == (Pos \ skipped) \ prims
        frontier_ok == fault # "FrontierAdd"
        graph_ok == fault # "ReverseGraphAdd"
        Count(p) == Step3_0CountChildren(p, graph_ok)
        success ==
            /\ \A p \in prims :
                 CheckAndLoadFrontierOk(Primitive(<<this_tier, p>>), 0,
                                        frontier_ok)
            /\ \A p \in inner : ChildCountOk(Count(p))
    IN
    /\ pc = "step3"
    /\ fault = "FrontierAdd" => prims # {}
    /\ fault = "ReverseGraphAdd" =>
         use_reverse_graph /\ \E p \in inner : Count(p) = -1
    /\ solving' = [solving EXCEPT !.rec =
         [p \in Pos |-> IF p \in prims
                        THEN Rec(Primitive(<<this_tier, p>>), 0)
                        ELSE @[p]]]
    /\ nwrites' = [p \in Pos |-> IF p \in prims THEN nwrites[p] + 1
                                 ELSE nwrites[p]]
    /\ frontier' = frontier \cup UNION
         {CheckAndLoadFrontier(this_tier_index, p,
                               Primitive(<<this_tier, p>>), 0, frontier_ok) :
          p \in prims}
    /\ num_undecided_children' = [num_undecided_children EXCEPT !.cell =
         [p \in Pos |-> IF p \in inner THEN ToUChar(Count(p)) ELSE 0]]
    /\ reverse_graph' = [reverse_graph EXCEPT !.bags =
         [c \in AllTP |->
            @[c] \cup {p \in inner : c \in Step3_0ChildrenAdded(p, graph_ok)}]]
    /\ pc' = IF success THEN "step4" ELSE "bailout"
    /\ hist' = [hist EXCEPT !.api_called = TRUE, !.table_used = TRUE,
                            !.fault = @ \/ ~success]
    /\ UNCHANGED <<game, tiers, fr, quixo, disk, current_api, this_tier, this_tier_size,
                   child_tiers, frontier_arrays, use_reverse_graph,
                   num_threads, args, ret, solved, push_vars, entry, result,
                   solution, ncalls, ninits, ext_vars>>

----------------------------------------------------------------------------
(* Phase 4 *)

\* Place of a bucket in the order of Step4PushFrontierUp's two loops: for
\* each remoteness the lose bucket, then the win bucket; after all of
\* them the tie buckets by remoteness.
BucketOrder(kind, remoteness) ==
    CASE kind = "lose" -> 2 * remoteness
      [] kind = "win" -> 2 * remoteness + 1
      [] OTHER -> 2 * kFrontierSize + remoteness

\* Variant without the loop over the tie buckets.
ReachableWinLose ==
    {f \in frontier : f.kind # "tie" /\ f.rmt >= 0 /\ f.rmt < kFrontierSize}

\* The records the loops still reach: buckets 0..kFrontierSize-1.
Reachable == {f \in frontier : f.rmt >= 0 /\ f.rmt < kFrontierSize}

\* The first non-empty bucket in loop order (empty buckets are pushed
\* without effect).
NextBucket ==
    CHOOSE f \in Reachable :
        \A g \in Reachable :
            BucketOrder(f.kind, f.rmt) <= BucketOrder(g.kind, g.rmt)

Bucket(kind, remoteness) ==
    {f \in frontier : f.kind = kind /\ f.rmt = remoteness}

AllIdle == \A t \in Threads : thr[t].st = "idle"

\* Step4PushFrontierUp calls PushFrontierHelper on the next bucket;
\* MakeFrontierOffsets may fail.
PushFrontierHelperBegin(offsets_ok) ==
    /\ pc = "step4"
    /\ ~level.active
    /\ Reachable # {}
    /\ IF offsets_ok
       THEN /\ level' = [active |-> TRUE, kind |-> NextBucket.kind,
                         r |-> NextBucket.rmt]
            /\ pending' = Bucket(NextBucket.kind, NextBucket.rmt)
            /\ helper_success' = TRUE
            /\ hist' = [hist EXCEPT
                 !.buckets = Append(@, <<NextBucket.kind, NextBucket.rmt>>),
                 !.start = num_undecided_children.cell,
                 !.got = [p \in Pos |-> <<>>],
                 !.ops = [p \in Pos |-> 0]]
            /\ UNCHANGED pc
       ELSE /\ pc' = "bailout"
            /\ hist' = [hist EXCEPT !.fault = TRUE]
            /\ UNCHANGED <<level, pending, helper_success>>
    /\ UNCHANGED <<game, tiers, fr, quixo, disk, module_vars, solving, args, ret, solved, thr,
                   nwrites, entry, result, solution, ncalls, ninits, ext_vars>>

\* GetCanonicalParentPositions as installed in current_api.
GetCanonicalParentPositions(child) ==
    IF current_api = "reverse_graph"
    THEN ReverseGraphPopParentsOf(reverse_graph, child)
    ELSE GameParents(child)

\* A thread takes the record `f` of the bucket and fetches its parents.
TakeRecordOf(t, f, parents_ok) ==
    LET tier_position == <<child_tiers.array[f.idx], f.pos>>
        parents == SetToSeq(GetCanonicalParentPositions(tier_position))
    IN
    /\ pc = "step4"
    /\ level.active
    /\ thr[t].st = "idle"
    /\ pending' = pending \ {f}
    /\ IF parents_ok
       THEN /\ thr' = [thr EXCEPT ![t] =
                 IF parents = <<>> THEN NoThread
                 ELSE [st |-> IF level.kind = "win" THEN "load" ELSE "exchange",
                       parents |-> parents, cur |-> 0]]
            /\ reverse_graph' =
                 IF current_api = "reverse_graph"
                 THEN ReverseGraphAfterPop(reverse_graph, tier_position)
                 ELSE reverse_graph
            /\ hist' = [hist EXCEPT !.calls[tier_position] = @ + 1]
            /\ UNCHANGED helper_success
       ELSE /\ helper_success' = FALSE
            /\ hist' = [hist EXCEPT !.fault = TRUE,
                                    !.calls[tier_position] = @ + 1]
            /\ UNCHANGED <<thr, reverse_graph>>
    /\ UNCHANGED <<game, tiers, fr, quixo, disk, current_api, this_tier, this_tier_size,
                   child_tiers, frontier_arrays, frontier,
                   num_undecided_children, use_reverse_graph, num_threads,
                   solving, call_vars, level, nwrites, entry, result,
                   solution, ncalls, ninits, ext_vars>>

TakeRecord(t, parents_ok) == \E f \in pending : TakeRecordOf(t, f, parents_ok)

\* The thread's state once it is done with the first of its parents.
NextParent(ts, st) ==
    IF Len(ts.parents) <= 1 THEN NoThread
    ELSE [st |-> st, parents |-> Tail(ts.parents), cur |-> 0]

\* Variants of the phase 4 and 5 rules with a plausible slip each.
ParentValueAlwaysTie(processing_lose) == kTie
ParentRemotenessOfChild(remoteness) == remoteness
ParentNeverSolved(child_remaining) == FALSE
LastButOneUndecidedChild(child_remaining) == child_remaining = 2
AlwaysDecrement(current_value) == TRUE

\* The record of the call with an atomic operation on the counter of
\* `parent` that returned `value`.
Returned(h, parent, value) ==
    [h EXCEPT !.ops[parent] = @ + 1,
              !.got[parent] = IF value # 0 THEN Append(@, value) ELSE @]

\* Value and remoteness given to a parent of a losing or tying position.
ParentValue(processing_lose) == IF processing_lose THEN kWin ELSE kTie
ParentRemoteness(remoteness) == remoteness + 1

\* "Parent already solved" (line 741).
ParentAlreadySolved(child_remaining) == child_remaining = 0

\* One iteration of ProcessLoseOrTiePosition's loop: the atomic exchange
\* with 0 and, if the parent was undecided, its record and FrontierAdd.
ProcessLoseOrTiePosition(t, add_ok) ==
    LET parent == Head(thr[t].parents)
        processing_lose == (level.kind = "lose")
        child_remaining == num_undecided_children.cell[parent]
        this_tier_index == child_tiers.size
        value == ParentValue(processing_lose)
        rmt == ParentRemoteness(level.r)
        returned == Returned(hist, parent, child_remaining)
    IN
    /\ pc = "step4"
    /\ thr[t].st = "exchange"
    /\ num_undecided_children' =
         [num_undecided_children EXCEPT !.cell[parent] = 0]
    /\ IF ParentAlreadySolved(child_remaining)
       THEN /\ add_ok
            /\ thr' = [thr EXCEPT ![t] = NextParent(@, "exchange")]
            /\ hist' = returned
            /\ UNCHANGED <<solving, nwrites, frontier, helper_success>>
       ELSE /\ solving' = SetRecord(solving, parent, value, rmt)
            /\ nwrites' = [nwrites EXCEPT ![parent] = @ + 1]
            /\ IF add_ok
               THEN /\ frontier' = frontier \cup
                         {FrontierRecord(FrontierOfValue(value), parent, rmt,
                                         this_tier_index)}
                    /\ thr' = [thr EXCEPT ![t] = NextParent(@, "exchange")]
                    /\ hist' = returned
                    /\ UNCHANGED helper_success
               ELSE /\ thr' = [thr EXCEPT ![t] = NoThread]
                    /\ helper_success' = FALSE
                    /\ hist' = [returned EXCEPT !.fault = TRUE]
                    /\ UNCHANGED frontier
    /\ UNCHANGED <<game, tiers, fr, quixo, disk, current_api, this_tier, this_tier_size,
                   child_tiers, frontier_arrays, reverse_graph,
                   use_reverse_graph, num_threads, call_vars, level, pending,
                   entry, result, solution, ncalls, ninits, ext_vars>>

\* DecrementIfNonZero's loop condition (line 778).
CanDecrement(current_value) == current_value # 0

\* DecrementIfNonZero: the atomic load.  A zero ends the call with 0 and
\* the parent is skipped.
DecrementIfNonZeroLoad(t) ==
    LET parent == Head(thr[t].parents)
        current_value == num_undecided_children.cell[parent]
    IN
    /\ pc = "step4"
    /\ thr[t].st = "load"
    /\ thr' = [thr EXCEPT ![t] =
         IF CanDecrement(current_value)
         THEN [@ EXCEPT !.st = "cas", !.cur = current_value]
         ELSE NextParent(@, "load")]
    /\ hist' = IF CanDecrement(current_value) THEN hist
               ELSE Returned(hist, parent, 0)
    /\ UNCHANGED <<game, tiers, fr, quixo, disk, module_vars, solving, call_vars, level,
                   pending, helper_success, nwrites, entry, result, solution,
                   ncalls, ninits, ext_vars>>

\* Variants of the compare-exchange: a plain store, and one that stores
\* the value it expected.
CompareExchangeAlways(cell, expected) == TRUE
NotDecremented(current_value) == current_value

\* atomic_compare_exchange_strong: it stores the desired value if the cell
\* still holds the expected one (lines 782-784).
CompareExchangeSucceeds(cell, expected) == cell = expected
\* The desired value, current_value - 1.
Decremented(current_value) == current_value - 1

\* "Last undecided child" (line 819).
LastUndecidedChild(child_remaining) == child_remaining = 1

\* DecrementIfNonZero: the compare-exchange, and on its success the rest of
\* the iteration of ProcessWinPosition's loop.
ProcessWinPosition(t, add_ok) ==
    LET parent == Head(thr[t].parents)
        current_value == thr[t].cur
        cell == num_undecided_children.cell[parent]
        this_tier_index == child_tiers.size
        rmt == ParentRemoteness(level.r)
    IN
    /\ pc = "step4"
    /\ thr[t].st = "cas"
    /\ IF CompareExchangeSucceeds(cell, current_value)
       THEN /\ num_undecided_children' =
                 [num_undecided_children EXCEPT
                    !.cell[parent] = ToUChar(Decremented(current_value))]
            /\ IF LastUndecidedChild(current_value)
               THEN /\ solving' = SetRecord(solving, parent, kLose, rmt)
                    /\ nwrites' = [nwrites EXCEPT ![parent] = @ + 1]
                    /\ IF add_ok
                       THEN /\ frontier' = frontier \cup
                                 {FrontierRecord("lose", parent, rmt,
                                                 this_tier_index)}
                            /\ thr' = [thr EXCEPT ![t] = NextParent(@, "load")]
                            /\ hist' = Returned(hist, parent, current_value)
                            /\ UNCHANGED helper_success
                       ELSE /\ thr' = [thr EXCEPT ![t] = NoThread]
                            /\ helper_success' = FALSE
                            /\ hist' = [Returned(hist, parent, current_value)
                                          EXCEPT !.fault = TRUE]
                            /\ UNCHANGED frontier
               ELSE /\ add_ok
                    /\ thr' = [thr EXCEPT ![t] = NextParent(@, "load")]
                    /\ hist' = Returned(hist, parent, current_value)
                    /\ UNCHANGED <<solving, nwrites, frontier, helper_success>>
       ELSE /\ add_ok
            /\ thr' = [thr EXCEPT ![t] =
                 IF CanDecrement(cell) THEN [@ EXCEPT !.cur = cell]
                 ELSE NextParent(@, "load")]
            /\ hist' = IF CanDecrement(cell) THEN hist
                       ELSE Returned(hist, parent, 0)
            /\ UNCHANGED <<num_undecided_children, solving, nwrites, frontier,
                           helper_success>>
    /\ UNCHANGED <<game, tiers, fr, quixo, disk, current_api, this_tier, this_tier_size,
                   child_tiers, frontier_arrays, reverse_graph,
                   use_reverse_graph, num_threads, call_vars, level, pending,
                   entry, result, solution, ncalls, ninits, ext_vars>>

\* The end of PushFrontierHelper: the bucket is freed in every frontier.
PushFrontierHelperEnd ==
    /\ pc = "step4"
    /\ level.active
    /\ pending = {}
    /\ AllIdle
    /\ frontier' = frontier \ Bucket(level.kind, level.r)
    /\ level' = [level EXCEPT !.active = FALSE]
    /\ pc' = IF helper_success THEN "step4" ELSE "bailout"
    /\ UNCHANGED <<game, tiers, fr, quixo, disk, current_api, this_tier, this_tier_size,
                   child_tiers, frontier_arrays, num_undecided_children,
                   reverse_graph, use_reverse_graph, num_threads, solving,
                   args, ret, solved, pending, helper_success, thr,
                   ghost_vars, ncalls, ninits, ext_vars>>

\* The end of Step4PushFrontierUp, after both loops.
Step4PushFrontierUp ==
    /\ pc = "step4"
    /\ ~level.active
    /\ Reachable = {}
    /\ frontier_arrays' = "destroyed"
    /\ frontier' = {}
    /\ child_tiers' = [size |-> 0, array |-> <<>>]
    /\ reverse_graph' = ReverseGraphDestroy(reverse_graph)
    /\ pc' = "step5"
    /\ UNCHANGED <<game, tiers, fr, quixo, disk, current_api, this_tier, this_tier_size,
                   num_undecided_children, use_reverse_graph, num_threads,
                   solving, args, ret, solved, push_vars, ghost_vars, ncalls,
                   ninits, ext_vars>>

----------------------------------------------------------------------------
(* Phases 5, 6 and 7 *)

\* Variant that marks every position.
NeverDecided(counter) == counter >= 0

\* "A position is drawing if it still has undecided children" (line 842).
StillUndecided(counter) == counter > 0

Step5MarkDrawPositions ==
    LET draws == {p \in Pos : StillUndecided(num_undecided_children.cell[p])}
    IN
    /\ pc = "step5"
    /\ solving' = [solving EXCEPT !.rec =
         [p \in Pos |-> IF p \in draws THEN [@[p] EXCEPT !.value = kDraw]
                        ELSE @[p]]]
    /\ nwrites' = [p \in Pos |-> IF p \in draws THEN nwrites[p] + 1
                                 ELSE nwrites[p]]
    /\ num_undecided_children' = NoCounters
    /\ hist' = [hist EXCEPT !.step5 = TRUE]
    /\ pc' = "step6"
    /\ UNCHANGED <<game, tiers, fr, quixo, disk, current_api, this_tier, this_tier_size,
                   child_tiers, frontier_arrays, frontier, reverse_graph,
                   use_reverse_graph, num_threads, args, ret, solved,
                   push_vars, entry, result, solution, ncalls, ninits, ext_vars>>

\* Step6SaveValues and, if compare is false, the success exit of
\* TierWorkerSolve.  A failed flush is only reported on stderr.
Step6SaveValues(flush_ok) ==
    /\ pc = "step6"
    /\ disk' = [disk EXCEPT ![this_tier] =
         IF flush_ok
         THEN [status |-> kDbTierStatusSolved, rec |-> solving.rec]
         ELSE [status |-> kDbTierStatusCorrupted, rec |-> @.rec]]
    /\ result' = solving.rec
    /\ solution' = [solution EXCEPT ![hist.mode] =
                       [done |-> TRUE, rec |-> solving.rec]]
    /\ solving' = NoSolvingTier
    /\ hist' = [hist EXCEPT !.flushed = TRUE, !.flush_failed = ~flush_ok]
    /\ IF args.compare
       THEN pc' = "compare" /\ UNCHANGED <<solved, ret>>
       ELSE pc' = "bailout" /\ solved' = TRUE /\ ret' = kNoError
    /\ UNCHANGED <<game, tiers, fr, quixo, module_vars, args, push_vars, nwrites, entry,
                   ncalls, ninits, ext_vars>>

\* CompareDb's test of one position: the reference is not undecided and
\* the value or the remoteness in the database differs from it.
Diverges(actual, reference) ==
    /\ reference.value # kUndecided
    /\ \/ actual.value # reference.value
       \/ actual.remoteness # reference.remoteness

\* The position at which CompareDb's loop ends: the first divergence, or
\* this_tier_size.
CompareDbStop(refdb) ==
    LET bad == {p \in 0 .. (this_tier_size - 1) :
                  Diverges(disk[this_tier].rec[p], refdb[p])}
    IN  IF bad = {} THEN this_tier_size
        ELSE CHOOSE p \in bad : \A q \in bad : p <= q

\* CompareDb and the exit of TierWorkerSolve after it.  `refdb` is the
\* content of the reference database; `outcome` says whether the two
\* DbManagerProbeInit calls succeed.
CompareDb(refdb, outcome) ==
    LET stop == CompareDbStop(refdb)
        success == outcome = "ok" /\ stop = this_tier_size
    IN
    /\ pc = "compare"
    /\ ref' = refdb
    /\ hist' = [hist EXCEPT
         !.compare = IF outcome # "ok" THEN "probe_failed"
                     ELSE IF success THEN "passed" ELSE "mismatch",
         !.cmp_pos = IF outcome = "ok" THEN stop ELSE 0]
    /\ solved' = success
    /\ ret' = IF success THEN kNoError ELSE ret
    /\ pc' = "bailout"
    /\ UNCHANGED <<game, tiers, fr, quixo, disk, module_vars, solving, args, push_vars, nwrites,
                   entry, result, solution, ncalls, ninits, mpi, vi, test>>

\* Whether DestroyFrontiers only touches Frontier objects that FrontierInit
\* has been run on.
DestroyFrontiersDefined ==
    num_threads > 0 => frontier_arrays # "malloc_failed"

\* Step7Cleanup and the return of TierWorkerSolve.  `crash`: DestroyFrontiers
\* on arrays that are NULL or were never initialized is undefined; the call
\* then either dies or goes on.
Step7Cleanup(crash) ==
    /\ pc = "bailout"
    /\ crash => ~DestroyFrontiersDefined
    /\ IF crash
       THEN /\ pc' = "crashed"
            /\ UNCHANGED <<module_vars, solving, level, thr, pending>>
       ELSE /\ pc' = "idle"
            /\ this_tier' = kIllegalTier
            /\ this_tier_size' = kIllegalSize
            /\ child_tiers' = [size |-> 0, array |-> <<>>]
            /\ solving' = NoSolvingTier
            /\ frontier_arrays' =
                 IF num_threads > 0 THEN "destroyed" ELSE frontier_arrays
            /\ frontier' = {}
            /\ num_undecided_children' = NoCounters
            /\ reverse_graph' =
                 IF use_reverse_graph THEN ReverseGraphDestroy(reverse_graph)
                 ELSE reverse_graph
            /\ current_api' = IF use_reverse_graph THEN "NULL" ELSE current_api
            /\ num_threads' = 0
            /\ level' = NoLevel
            /\ thr' = [t \in Threads |-> NoThread]
            /\ pending' = {}
            /\ UNCHANGED use_reverse_graph
    /\ UNCHANGED <<game, tiers, fr, quixo, disk, args, ret, solved, helper_success, ghost_vars,
                   ncalls, ninits, ext_vars>>

----------------------------------------------------------------------------
\* The steps of one call of TierWorkerSolve after its entry.
SolveSteps ==
    \/ \E outcome \in Step0Outcomes : Step0Initialize(outcome)
    \/ \E c \in CPos, how \in {"probe", "FrontierAdd"} : Step1LoadChildren({c}, how)
    \/ Step1LoadChildren({}, "none")
    \/ \E outcome \in {"ok", "create", "calloc"} : Step2SetupSolverArrays(outcome)
    \/ \E fault \in {"none", "FrontierAdd", "ReverseGraphAdd"} : Step3ScanTier(fault)
    \/ \E ok \in BOOLEAN : PushFrontierHelperBegin(ok)
    \/ \E t \in Threads, ok \in BOOLEAN : TakeRecord(t, ok)
    \/ \E t \in Threads, ok \in BOOLEAN : ProcessLoseOrTiePosition(t, ok)
    \/ \E t \in Threads : DecrementIfNonZeroLoad(t)
    \/ \E t \in Threads, ok \in BOOLEAN : ProcessWinPosition(t, ok)
    \/ PushFrontierHelperEnd
    \/ Step4PushFrontierUp
    \/ Step5MarkDrawPositions
    \/ \E ok \in BOOLEAN : Step6SaveValues(ok)
    \/ \E crash \in BOOLEAN : Step7Cleanup(crash)

\* One call of TierWorkerSolve.
NextPush ==
    \/ \E api \in {"NULL", "game"} :
         ninits < MaxPushInits /\ TierWorkerInit(api)
    \/ \E tier \in TiersToSolve, force \in BOOLEAN :
         ncalls < MaxPushCalls /\ TierWorkerSolve(tier, force, FALSE)
    \/ SolveSteps

SpecPush == Init /\ [][NextPush]_vars

\* Two calls of TierWorkerSolve with the same current_api.
NextTwice ==
    \/ \E api \in {"NULL", "game"} :
         ninits < MaxPushInits /\ TierWorkerInit(api)
    \/ \E tier \in TiersToSolve, force \in BOOLEAN :
         TierWorkerSolve(tier, force, FALSE)
    \/ SolveSteps

SpecTwice == Init /\ [][NextTwice]_vars

\* One call of TierWorkerSolve on a tier whose child tier is not canonical.
SpecSym == InitSym /\ [][NextPush]_vars

\* Games in which position 0 of the tier has, besides its modelled children,
\* none, MaxFurtherChildren - 1 or MaxFurtherChildren further canonical
\* children (child counts 0 .. MaxChildren and MaxFurtherChildren - 1 ..
\* MaxFurtherChildren + MaxChildren).
CountGames ==
    {[g EXCEPT ![0].more = m] :
       g \in {h \in Games : h[0].legal /\ h[0].canon = 0
                               /\ h[0].prim = kUndecided},
       m \in {0, MaxFurtherChildren - 1, MaxFurtherChildren}}

SpecCount == InitState(CountGames, ChildDbs) /\ [][NextPush]_vars

----------------------------------------------------------------------------
(* The frontiers record by record *)

\* In this part the frontiers are followed as the arrays they are: for each
\* value an array of one Frontier per thread, each with its buckets and its
\* dividers. Thread t of Threads has the thread id t - 1; frontier ids and
\* child indices count from 0 as in the code.

FrKinds == {"win", "lose", "tie"}
FrRemoteness == 0 .. MaxFrRemoteness

\* Frontier: a bucket of records and a row of dividers per remoteness. A
\* record is stored with the child index and the phase it was added with.
FrontierInit(dividers_size) ==
    [buckets |-> [r \in FrRemoteness |-> <<>>],
     dividers |-> [r \in FrRemoteness |-> [i \in 1 .. dividers_size |-> 0]]]

FrontierAddFrom(f, position, remoteness, child_index, phase) ==
    [f EXCEPT !.buckets[remoteness] =
                  Append(@, [position |-> position, child_index |-> child_index,
                             phase |-> phase]),
              !.dividers[remoteness][child_index + 1] = @ + 1]

RECURSIVE PrefixSum(_, _)
PrefixSum(counts, i) ==
    IF i = 0 THEN 0 ELSE counts[i] + PrefixSum(counts, i - 1)

FrontierAccumulateDividers(f) ==
    [f EXCEPT !.dividers =
       [r \in FrRemoteness |->
          [i \in DOMAIN f.dividers[r] |-> PrefixSum(f.dividers[r], i)]]]

FrontierGetPosition(f, remoteness, i) == f.buckets[remoteness][i + 1].position

FrontierFreeRemoteness(f, remoteness) ==
    [f EXCEPT !.buckets[remoteness] = <<>>]

\* MakeFrontierOffsets: frontier_offsets[0 .. num_threads] as a sequence.
RECURSIVE SumOfSizes(_, _, _)
SumOfSizes(frontiers, remoteness, i) ==
    IF i = 0 THEN 0
    ELSE SumOfSizes(frontiers, remoteness, i - 1)
         + Len(frontiers[i].buckets[remoteness])
MakeFrontierOffsets(frontiers, remoteness) ==
    [i \in 1 .. (num_threads + 1) |-> SumOfSizes(frontiers, remoteness, i - 1)]

\* Variant of the reset of *child_index when the frontier id advances.
ChildIndexKept(child_index) == child_index

\* UpdateFrontierAndChildTierIds, line 708: *child_index = 0.
ChildIndexReset(child_index) == 0

\* UpdateFrontierAndChildTierIds, first loop (lines 706-709). `overrun`
\* when the loop reads frontier_offsets behind its last element.
RECURSIVE UpdateFrontierId(_, _, _, _)
UpdateFrontierId(i, frontier_id, child_index, frontier_offsets) ==
    IF frontier_id + 1 > num_threads
    THEN [frontier_id |-> frontier_id, child_index |-> child_index,
          overrun |-> TRUE]
    ELSE IF i >= frontier_offsets[frontier_id + 2]
    THEN UpdateFrontierId(i, frontier_id + 1, ChildIndexReset(child_index),
                          frontier_offsets)
    ELSE [frontier_id |-> frontier_id, child_index |-> child_index,
          overrun |-> FALSE]

\* UpdateFrontierAndChildTierIds, second loop (lines 711-714). `overrun`
\* when the loop reads the dividers behind the last one.
RECURSIVE UpdateChildIndex(_, _, _)
UpdateChildIndex(index_in_frontier, child_index, dividers) ==
    IF child_index + 1 > Len(dividers)
    THEN [child_index |-> child_index, overrun |-> TRUE]
    ELSE IF index_in_frontier >= dividers[child_index + 1]
    THEN UpdateChildIndex(index_in_frontier, child_index + 1, dividers)
    ELSE [child_index |-> child_index, overrun |-> FALSE]

UpdateFrontierAndChildTierIds(i, frontiers, frontier_id, child_index, remoteness, frontier_offsets) ==
    LET first == UpdateFrontierId(i, frontier_id, child_index,
                                  frontier_offsets)
    IN  IF first.overrun THEN first
        ELSE LET index_in_frontier ==
                     i - frontier_offsets[first.frontier_id + 1]
                 second == UpdateChildIndex(
                     index_in_frontier, first.child_index,
                     frontiers[first.frontier_id + 1].dividers[remoteness])
             IN  [frontier_id |-> first.frontier_id,
                  child_index |-> second.child_index,
                  overrun |-> second.overrun]

\* Variant of this_tier_index that is the index of the last child tier.
LastChildTierIndex == child_tiers.size - 2

\* The index of the tier being solved in child_tiers (lines 555, 743, 823).
ThisTierIndex == child_tiers.size - 1

\* The frontier the parents decided by a record of a frontier go to.
ParentFrontier(kind) ==
    CASE kind = "lose" -> "win"
      [] kind = "win" -> "lose"
      [] OTHER -> "tie"

\* FrontierAdd for each of `parents` in turn.
RECURSIVE FrontierAddParents(_, _, _, _)
FrontierAddParents(f, parents, remoteness, child_index) ==
    IF parents = <<>> THEN f
    ELSE FrontierAddParents(
             FrontierAddFrom(f, Head(parents), remoteness, child_index, "push"),
             Tail(parents), remoteness, child_index)

\* The parents one processed record can decide.
DecidedParents == UNION {[1 .. n -> Pos] : n \in 0 .. MaxFrParents}

NoIteration ==
    [thread |-> 0, i |-> 0, frontier_id |-> 0, child_index |-> 0,
     tier_position |-> <<0, 0>>]

\* The tier has 1 .. MaxFrChildTiers child tiers (tiers 2, 3, ...), and
\* Step0Initialize has run: child_tiers ends with the tier itself and the
\* frontiers are initialized.
FrChildTiers ==
    {[size |-> n + 1,
      array |-> [i \in 1 .. (n + 1) |-> IF i = n + 1 THEN 1 ELSE i + 1]] :
       n \in 1 .. MaxFrChildTiers}

InitFr ==
    /\ game = [p \in Pos |-> [legal |-> FALSE, canon |-> p,
                              prim |-> kUndecided, kids |-> {}, symm |-> p,
                              more |-> 0]]
    /\ tiers = CanonicalChildTier
    /\ quixo = NoQuixo
    /\ disk = DiskOf([c \in CPos |-> Rec(kDraw, 0)])
    /\ this_tier = 1
    /\ num_threads = NumThreads
    /\ child_tiers \in FrChildTiers
    /\ fr = [at |-> "step1", child_index |-> 0,
             frontiers |-> [k \in FrKinds |->
                              [t \in Threads |-> FrontierInit(child_tiers.size)]],
             kind |-> "lose", remoteness |-> 0, frontier_offsets |-> <<>>,
             next |-> 0,
             hint |-> [t \in Threads |-> [frontier_id |-> 0, child_index |-> 0]],
             adds |-> 0, last |-> NoIteration]
    /\ InitOthers

fr_others == <<game, tiers, quixo, disk, module_vars, solving, call_vars, push_vars,
               ghost_vars, ncalls, ninits, ext_vars>>

\* One iteration of the loop of Step1_0LoadCanonicalTier, run by thread t,
\* on a position whose record CheckAndLoadFrontier adds.
FrLoadChild(t, position, value, remoteness) ==
    /\ fr.at = "step1"
    /\ fr.adds < MaxFrAdds
    /\ fr' = [fr EXCEPT
         !.frontiers[FrontierOfValue(value)][t] =
             FrontierAddFrom(@, position, remoteness, fr.child_index, "load"),
         !.adds = @ + 1]
    /\ UNCHANGED fr_others

\* Step1LoadChildren: the parallel region of a child tier has ended and the
\* loop goes on to the next child index, or ends.
FrNextChildTier ==
    /\ fr.at = "step1"
    /\ fr' = IF fr.child_index + 1 < child_tiers.size - 1
             THEN [fr EXCEPT !.child_index = @ + 1]
             ELSE [fr EXCEPT !.at = "step3"]
    /\ UNCHANGED fr_others

\* One iteration of the loop of Step3ScanTier, run by thread t, on a
\* primitive position.
FrScanPrimitive(t, position, value) ==
    /\ fr.at = "step3"
    /\ fr.adds < MaxFrAdds
    /\ fr' = [fr EXCEPT
         !.frontiers[FrontierOfValue(value)][t] =
             FrontierAddFrom(@, position, 0, ThisTierIndex, "scan"),
         !.adds = @ + 1]
    /\ UNCHANGED fr_others

\* The end of Step3ScanTier (lines 568-572) and the entry of
\* Step4PushFrontierUp.
FrAccumulate ==
    /\ fr.at = "step3"
    /\ fr' = [fr EXCEPT
         !.at = "step4",
         !.frontiers = [k \in FrKinds |->
                          [t \in Threads |->
                             FrontierAccumulateDividers(fr.frontiers[k][t])]],
         !.kind = "lose", !.remoteness = 0]
    /\ UNCHANGED fr_others

\* PushFrontierHelper up to the parallel region.
FrHelperBegin ==
    /\ fr.at = "step4"
    /\ fr' = [fr EXCEPT
         !.at = "helper",
         !.frontier_offsets =
             MakeFrontierOffsets(fr.frontiers[fr.kind], fr.remoteness),
         !.next = 0,
         !.hint = [t \in Threads |-> [frontier_id |-> 0, child_index |-> 0]]]
    /\ UNCHANGED fr_others

\* One iteration of the loop of PushFrontierHelper: thread t takes the next
\* index, finds the record's frontier and child index, and ProcessPosition
\* adds the parents it decides to the thread's own frontier.
FrIteration(t, parents) ==
    /\ fr.at = "helper"
    /\ fr.next < fr.frontier_offsets[num_threads + 1]
    /\ Len(parents) > 0 =>
         /\ fr.remoteness < MaxFrRemoteness
         /\ fr.adds + Len(parents) <= MaxFrAdds
    /\ LET i == fr.next
           frontiers == fr.frontiers[fr.kind]
           ids == UpdateFrontierAndChildTierIds(
                      i, frontiers, fr.hint[t].frontier_id,
                      fr.hint[t].child_index, fr.remoteness,
                      fr.frontier_offsets)
           index_in_frontier == i - fr.frontier_offsets[ids.frontier_id + 1]
           tier_position ==
               <<child_tiers.array[ids.child_index + 1],
                 FrontierGetPosition(frontiers[ids.frontier_id + 1],
                                     fr.remoteness, index_in_frontier)>>
           Added(f) ==
               FrontierAddParents(f, parents, fr.remoteness + 1, ThisTierIndex)
       IN  fr' = IF ids.overrun
                 THEN [fr EXCEPT !.at = "overrun"]
                 ELSE [fr EXCEPT
                         !.next = i + 1,
                         !.hint[t] = [frontier_id |-> ids.frontier_id,
                                      child_index |-> ids.child_index],
                         !.frontiers[ParentFrontier(fr.kind)][t] = Added(@),
                         !.adds = @ + Len(parents),
                         !.last = [thread |-> t, i |-> i,
                                   frontier_id |-> ids.frontier_id,
                                   child_index |-> ids.child_index,
                                   tier_position |-> tier_position]]
    /\ UNCHANGED fr_others

\* PushFrontierHelper after the parallel region, and the loops of
\* Step4PushFrontierUp.
FrHelperEnd ==
    /\ fr.at = "helper"
    /\ fr.next = fr.frontier_offsets[num_threads + 1]
    /\ LET freed == [fr.frontiers EXCEPT ![fr.kind] =
                       [t \in Threads |->
                          FrontierFreeRemoteness(fr.frontiers[fr.kind][t],
                                                 fr.remoteness)]]
           last_remoteness == fr.remoteness = MaxFrRemoteness
       IN  fr' = [fr EXCEPT
             !.frontiers = freed,
             !.at = IF fr.kind = "tie" /\ last_remoteness THEN "done"
                    ELSE "step4",
             !.kind = CASE fr.kind = "lose" -> "win"
                        [] fr.kind = "win" ->
                             IF last_remoteness THEN "tie" ELSE "lose"
                        [] OTHER -> "tie",
             !.remoteness = CASE fr.kind = "lose" -> @
                              [] last_remoteness -> 0
                              [] OTHER -> @ + 1]
    /\ UNCHANGED fr_others

NextFr ==
    \/ \E t \in Threads, position \in CPos, value \in {kWin, kLose, kTie},
          remoteness \in FrRemoteness :
         FrLoadChild(t, position, value, remoteness)
    \/ FrNextChildTier
    \/ \E t \in Threads, position \in Pos, value \in {kWin, kLose, kTie} :
         FrScanPrimitive(t, position, value)
    \/ FrAccumulate
    \/ FrHelperBegin
    \/ \E t \in Threads, parents \in DecidedParents :
         FrIteration(t, parents)
    \/ FrHelperEnd

SpecFr == InitFr /\ [][NextFr]_vars

----------------------------------------------------------------------------
(* Quixo: the hashing of tiers (src/games/quixo/quixo.c) *)

\* The board of QuixoInit.
board_rows == 5
board_cols == 5
GetBoardSize == board_rows * board_cols

IsValidPieceConfig(num_blanks, num_x, num_o) ==
    IF num_blanks < 0 \/ num_x < 0 \/ num_o < 0 THEN FALSE
    ELSE IF num_blanks + num_x + num_o # GetBoardSize THEN FALSE
    ELSE IF num_blanks <= GetBoardSize - 2 THEN num_x = 1 /\ num_o = 1
    ELSE IF num_blanks = GetBoardSize - 1 THEN num_x = 1 /\ num_o = 0
    ELSE TRUE

HashTier(num_blanks, num_x, num_o) ==
    num_o * GetBoardSize * GetBoardSize + num_x * GetBoardSize + num_blanks

\* The division and remainder of C, which truncate toward zero.
CDiv(a, b) == IF a >= 0 THEN a \div b ELSE -((-a) \div b)
CRem(a, b) == a - b * CDiv(a, b)

UnhashTier(tier) ==
    [num_blanks |-> CRem(tier, GetBoardSize),
     num_x |-> CRem(CDiv(tier, GetBoardSize), GetBoardSize),
     num_o |-> CDiv(CDiv(tier, GetBoardSize), GetBoardSize)]

\* What the two asserts of QuixoGetChildTiers require of the decoded counts.
ChildTiersAsserts(c) ==
    /\ c.num_blanks + c.num_x + c.num_o = GetBoardSize
    /\ c.num_blanks >= 0 /\ c.num_x >= 0 /\ c.num_o >= 0

\* QuixoGetChildTiers past its asserts.
QuixoGetChildTiers(tier) ==
    LET c == UnhashTier(tier)
    IN  IF c.num_blanks = GetBoardSize
        THEN <<HashTier(c.num_blanks - 1, 1, 0)>>
        ELSE IF c.num_blanks = GetBoardSize - 1
        THEN <<HashTier(c.num_blanks - 1, 1, 1)>>
        ELSE <<HashTier(c.num_blanks - 1, c.num_x + 1, c.num_o),
               HashTier(c.num_blanks - 1, c.num_x, c.num_o + 1)>>

QuixoGetCanonicalTier(tier) ==
    LET c == UnhashTier(tier)
        symm == HashTier(c.num_blanks, c.num_o, c.num_x)
    IN  IF tier < symm THEN tier ELSE symm

QuixoSetInitialTier == HashTier(GetBoardSize, 0, 0)

\* The piece configurations the loops of QuixoInit go through.
PieceCounts == 0 .. GetBoardSize
PieceConfigs ==
    [num_blanks : PieceCounts, num_x : PieceCounts, num_o : PieceCounts]
ValidPieceConfigs ==
    {c \in PieceConfigs : IsValidPieceConfig(c.num_blanks, c.num_x, c.num_o)}

InitQuixo ==
    /\ \E c \in PieceConfigs :
         quixo = [at |-> "config", config |-> c, valid |-> FALSE, tier |-> -1,
                  decoded |-> c, children |-> <<>>, canonical |-> -1,
                  aborted |-> FALSE]
    /\ game = [p \in Pos |-> [legal |-> FALSE, canon |-> p,
                              prim |-> kUndecided, kids |-> {}, symm |-> p,
                              more |-> 0]]
    /\ tiers = CanonicalChildTier
    /\ disk = DiskOf([c \in CPos |-> Rec(kDraw, 0)])
    /\ fr = NoFrontiers
    /\ this_tier = 0
    /\ child_tiers = [size |-> 0, array |-> <<>>]
    /\ num_threads = 0
    /\ InitOthers

quixo_others == <<game, tiers, fr, disk, module_vars, solving, call_vars,
                  push_vars, ghost_vars, ncalls, ninits, ext_vars>>

\* One pass of the loops of QuixoInit: a configuration that
\* IsValidPieceConfig accepts gets its tier from HashTier, the others are
\* skipped.
QuixoInitConfig ==
    LET c == quixo.config
    IN
    /\ quixo.at = "config"
    /\ quixo' = IF IsValidPieceConfig(c.num_blanks, c.num_x, c.num_o)
                THEN [quixo EXCEPT !.at = "tier", !.valid = TRUE,
                        !.tier = HashTier(c.num_blanks, c.num_x, c.num_o)]
                ELSE [quixo EXCEPT !.at = "skipped"]
    /\ UNCHANGED quixo_others

\* The tier solver hands the tier back: QuixoGetChildTiers decodes it, and
\* either stops at an assert (a build with assertions) or returns the
\* child tiers.
QuixoChildTiers(ndebug) ==
    /\ quixo.at = "tier"
    /\ quixo' = [quixo EXCEPT
         !.at = "children",
         !.decoded = UnhashTier(quixo.tier),
         !.aborted = ~ndebug /\ ~ChildTiersAsserts(UnhashTier(quixo.tier)),
         !.children = IF ~ndebug /\ ~ChildTiersAsserts(UnhashTier(quixo.tier))
                      THEN <<>>
                      ELSE QuixoGetChildTiers(quixo.tier)]
    /\ UNCHANGED quixo_others

\* QuixoGetCanonicalTier on the same tier.
QuixoCanonicalTier ==
    /\ quixo.at = "children"
    /\ ~quixo.aborted
    /\ quixo' = [quixo EXCEPT !.at = "canonical",
                              !.canonical = QuixoGetCanonicalTier(quixo.tier)]
    /\ UNCHANGED quixo_others

NextQuixo ==
    \/ QuixoInitConfig
    \/ \E ndebug \in BOOLEAN : QuixoChildTiers(ndebug)
    \/ QuixoCanonicalTier

SpecQuixo == InitQuixo /\ [][NextQuixo]_vars

\* The reference records CompareDb can meet at a position whose record in
\* the database is `actual`: the same record, an undecided one, one with
\* another value, one with another remoteness.
ReferenceRecords(actual) ==
    { actual,
      Rec(kUndecided, 0),
      Rec(IF actual.value = kWin THEN kLose ELSE kWin, actual.remoteness),
      Rec(actual.value, actual.remoteness + 1) }

\* The reference databases of the tier being compared.
ReferenceDbs ==
    LET actual == disk[this_tier].rec
    IN  {r \in [Pos -> UNION {ReferenceRecords(actual[p]) : p \in Pos}] :
           \A p \in Pos : r[p] \in ReferenceRecords(actual[p])}

\* CompareDb against any reference database.
CompareDbOfReference(outcome) ==
    /\ pc = "compare"
    /\ \E refdb \in ReferenceDbs : CompareDb(refdb, outcome)

\* Calls of TierWorkerSolve with compare = true.
NextCmp ==
    \/ \E api \in {"NULL", "game"} :
         ninits < MaxCmpInits /\ TierWorkerInit(api)
    \/ \E tier \in TiersToSolve, force \in BOOLEAN :
         ncalls < MaxCmpCalls /\ TierWorkerSolve(tier, force, TRUE)
    \/ SolveSteps
    \/ \E outcome \in {"ok", "DbManagerProbeInit", "DbManagerRefProbeInit"} :
         CompareDbOfReference(outcome)

SpecCmp == InitState(Games, ChildDbs) /\ [][NextCmp]_vars

\* The child databases whose records all have the largest remoteness.
RemotenessMaxChildDbs ==
    [CPos -> {Rec(v, kRemotenessMax) : v \in {kWin, kLose, kTie}}]

\* FrontierAdd was called with a remoteness that is not the index of a
\* bucket: it wrote outside the kFrontierSize buckets of the frontier, and
\* the process may die of it.
FrontierAddOutOfRange ==
    /\ pc = "step4"
    /\ \E f \in frontier : f.rmt >= kFrontierSize
    /\ pc' = "crashed"
    /\ UNCHANGED <<game, tiers, fr, quixo, disk, module_vars, solving, args, ret, solved,
                   push_vars, ghost_vars, ncalls, ninits, ext_vars>>

\* Solves of a tier whose child tier holds records of remoteness
\* kRemotenessMax.
NextRmax ==
    \/ \E api \in {"NULL", "game"} : TierWorkerInit(api)
    \/ \E tier \in TiersToSolve, force \in BOOLEAN :
         ncalls < MaxRmaxCalls /\ TierWorkerSolve(tier, force, FALSE)
    \/ SolveSteps
    \/ FrontierAddOutOfRange

SpecRmax == InitState(Games, RemotenessMaxChildDbs) /\ [][NextRmax]_vars

----------------------------------------------------------------------------
(* Value iteration *)

\* A tier is loop-free if there are no cycles in its position graph.
LoopFree(g) ==
    \E rank \in [Pos -> 0 .. (NumPos - 1)] :
        \A p \in Pos : \A k \in g[p].kids :
            k[1] = TierIds[1] => rank[p] > rank[k[2]]

LoopFreeGames == {g \in Games : LoopFree(g)}

\* The entry of TierWorkerSolveValueIteration (called without compare).
TierWorkerSolveValueIteration(tier, force) ==
    /\ pc = "idle"
    /\ mpi.at = "off"
    /\ ninits > 0
    /\ ncalls < MaxCalls
    /\ vi.calls < MaxVICalls
    /\ ncalls' = ncalls + 1
    /\ args' = [tier |-> tier, force |-> force, compare |-> FALSE]
    /\ solved' = FALSE
    /\ IF AlreadySolved(force, DbManagerTierStatus(tier))
       THEN ret' = kNoError /\ pc' = "vi_bailout"
       ELSE ret' = kRuntimeError /\ pc' = "vi0"
    /\ hist' = [NoHist EXCEPT !.status = DbManagerTierStatus(tier),
                              !.mode = "value_iteration"]
    /\ nwrites' = [p \in Pos |-> 0]
    /\ entry' = [module |-> ModuleState, disk |-> disk]
    /\ result' = EmptyTable
    /\ vi' = [vi EXCEPT !.calls = @ + 1, !.raced = FALSE]
    /\ UNCHANGED <<game, tiers, fr, quixo, disk, module_vars, solving, push_vars, solution,
                   ninits, ref, mpi, test>>

VIStep0Initialize(ok) ==
    LET got == GetChildTiers(args.tier)
    IN
    /\ pc = "vi0"
    /\ this_tier' = args.tier
    /\ child_tiers' = IF ok THEN [size |-> Len(got), array |-> got]
                      ELSE [size |-> kIllegalSize, array |-> <<>>]
    /\ this_tier_size' = IF ok THEN GetTierSize(args.tier) ELSE this_tier_size
    /\ vi' = IF ok THEN [vi EXCEPT !.largest_win_lose_remoteness = 0,
                                   !.largest_tie_remoteness = 0]
             ELSE vi
    /\ pc' = IF ok THEN "vi1" ELSE "vi_bailout"
    /\ hist' = [hist EXCEPT !.api_called = TRUE, !.fault = ~ok]
    /\ UNCHANGED <<game, tiers, fr, quixo, disk, current_api, frontier_arrays, frontier,
                   num_undecided_children, reverse_graph, use_reverse_graph,
                   num_threads, solving, args, ret, solved, push_vars,
                   nwrites, entry, result, solution, ncalls, ninits, ref,
                   mpi, test>>

\* The remotenesses of the loaded records of the child tiers that have one
\* of the given values.
LoadedRemotenesses(values) ==
    UNION {{disk[child_tiers.array[i]].rec[c].remoteness :
              c \in {c \in 0 .. (GetTierSize(child_tiers.array[i]) - 1) :
                       disk[child_tiers.array[i]].rec[c].value \in values}} :
           i \in 1 .. child_tiers.size}

\* What the scan for a largest remoteness of VIStep1LoadChildren can leave
\* in its variable: the unsynchronized `if (r > largest) largest = r` of
\* the parallel loop keeps the last store, that of any record whose
\* remoteness exceeded the value its thread had read.
LargestRemotenessStored(values) ==
    LET rs == {r \in LoadedRemotenesses(values) : r > 0}
    IN  IF rs = {} THEN {0} ELSE rs

\* The largest of the remotenesses, which the scan leaves when no store is
\* lost.
LargestRemoteness(values) ==
    LET rs == LargestRemotenessStored(values)
    IN  CHOOSE r \in rs : \A q \in rs : q <= r

VIStep1LoadChildren(ok) ==
    /\ pc = "vi1"
    /\ IF ok
       THEN /\ \E wl \in LargestRemotenessStored({kWin, kLose}),
                  tie \in LargestRemotenessStored({kTie}) :
                 vi' = [vi EXCEPT
                   !.loaded = TRUE,
                   !.largest_win_lose_remoteness = wl,
                   !.largest_tie_remoteness = tie,
                   !.raced = \/ wl # LargestRemoteness({kWin, kLose})
                             \/ tie # LargestRemoteness({kTie})]
            /\ pc' = "vi3"
            /\ UNCHANGED hist
       ELSE /\ pc' = "vi_bailout"
            /\ hist' = [hist EXCEPT !.fault = TRUE]
            /\ UNCHANGED vi
    /\ UNCHANGED <<game, tiers, fr, quixo, disk, module_vars, solving, args, ret, solved,
                   push_vars, nwrites, entry, result, solution, ncalls,
                   ninits, ref, mpi, test>>

VIStep3SetupSolvingTier(ok) ==
    /\ pc = "vi3"
    /\ solving' = IF ok THEN DbManagerCreateSolvingTier ELSE solving
    /\ pc' = IF ok THEN "vi4scan" ELSE "vi_bailout"
    /\ hist' = [hist EXCEPT !.table_used = ok, !.fault = ~ok]
    /\ UNCHANGED <<game, tiers, fr, quixo, disk, module_vars, args, ret, solved, push_vars,
                   nwrites, entry, result, solution, ncalls, ninits,
                   ext_vars>>

\* VIStep4ScanTier, and the entry of VIStep4_0IterateWinLose's first
\* iteration (its loop condition holds for i = 1).
VIStep4ScanTier ==
    LET skipped == {p \in Pos : ScanSkips(p)}
        prims == {p \in Pos \ skipped : Primitive(<<this_tier, p>>) # kUndecided}
    IN
    /\ pc = "vi4scan"
    /\ solving' = [solving EXCEPT !.rec =
         [p \in Pos |->
            IF p \in skipped THEN [@[p] EXCEPT !.value = kDraw]
            ELSE IF p \in prims THEN Rec(Primitive(<<this_tier, p>>), 0)
            ELSE @[p]]]
    /\ vi' = [vi EXCEPT !.kind = "win_lose", !.iteration = 1,
                        !.updated = FALSE, !.failed = FALSE,
                        !.todo = 0 .. (this_tier_size - 1)]
    /\ pc' = "vi4"
    /\ UNCHANGED <<game, tiers, fr, quixo, disk, module_vars, args, ret, solved, push_vars,
                   ghost_vars, ncalls, ninits, ref, mpi, test>>

\* The value and remoteness of a child as the iteration reads them: from
\* the solving table inside the tier, from the loaded child tier outside.
VIChildValue(c) ==
    IF c[1] = this_tier THEN solving.rec[c[2]].value
    ELSE disk[c[1]].rec[c[2]].value
VIChildRemoteness(c) ==
    IF c[1] = this_tier THEN solving.rec[c[2]].remoteness
    ELSE disk[c[1]].rec[c[2]].remoteness

\* The values of children that clear all_children_winning.
NotWinning == {kUndecided, kTie, kLose}

\* IterateWinLoseProcessPosition: the value it sets, kUndecided if none.
IterateWinLoseProcessPosition(iteration, pos) ==
    LET kids == GetCanonicalChildPositions(<<this_tier, pos>>)
        wins == {VIChildRemoteness(c) : c \in {c \in kids : VIChildValue(c) = kWin}}
        largest_win == IF wins = {} THEN -1
                       ELSE CHOOSE r \in wins : \A q \in wins : q <= r
        all_children_winning == \A c \in kids : VIChildValue(c) \notin NotWinning
    IN  IF \E c \in kids : /\ VIChildValue(c) = kLose
                           /\ VIChildRemoteness(c) = iteration - 1
        THEN kWin
        ELSE IF all_children_winning /\ largest_win + 1 = iteration
        THEN kLose
        ELSE kUndecided

\* IterateTieProcessPosition: the value it sets, kUndecided if none.
IterateTieProcessPosition(iteration, pos) ==
    LET kids == GetCanonicalChildPositions(<<this_tier, pos>>)
    IN  IF \E c \in kids : /\ VIChildValue(c) = kTie
                           /\ VIChildRemoteness(c) = iteration - 1
        THEN kTie
        ELSE kUndecided

\* One position of the parallel loop of VIStep4_0IterateWinLose or
\* VIStep4_1IterateTie, up to its DbManagerSetValue.
VIProcessPosition(t, ok) ==
    /\ pc = "vi4"
    /\ vi.thr[t].st = "idle"
    /\ \E pos \in vi.todo :
         LET value == IF vi.kind = "win_lose"
                      THEN IterateWinLoseProcessPosition(vi.iteration, pos)
                      ELSE IterateTieProcessPosition(vi.iteration, pos)
             skip == solving.rec[pos].value # kUndecided
             half_written ==
                 \E u \in Threads :
                     /\ vi.thr[u].st = "set_remoteness"
                     /\ <<this_tier, vi.thr[u].pos>> \in
                          GetCanonicalChildPositions(<<this_tier, pos>>)
             raced == vi.raced \/ (~skip /\ ok /\ half_written)
         IN  /\ ~ok => ~skip
             /\ IF skip \/ (ok /\ value = kUndecided)
                THEN /\ vi' = [vi EXCEPT !.todo = @ \ {pos}, !.raced = raced]
                     /\ UNCHANGED solving
                ELSE IF ~ok
                THEN /\ vi' = [vi EXCEPT !.todo = @ \ {pos}, !.failed = TRUE]
                     /\ UNCHANGED solving
                ELSE /\ solving' = DbManagerSetValue(solving, pos, value)
                     /\ vi' = [vi EXCEPT !.todo = @ \ {pos},
                                  !.raced = raced,
                                  !.thr[t] = [st |-> "set_remoteness",
                                              pos |-> pos]]
    /\ UNCHANGED <<game, tiers, fr, quixo, disk, module_vars, call_vars, push_vars, ghost_vars,
                   ncalls, ninits, ref, mpi, test>>

\* The DbManagerSetRemoteness that follows the DbManagerSetValue, and the
\* report of the update.
VISetRemoteness(t) ==
    /\ pc = "vi4"
    /\ vi.thr[t].st = "set_remoteness"
    /\ solving' = DbManagerSetRemoteness(solving, vi.thr[t].pos, vi.iteration)
    /\ vi' = [vi EXCEPT !.thr[t] = NoVIThread, !.updated = TRUE]
    /\ UNCHANGED <<game, tiers, fr, quixo, disk, module_vars, call_vars, push_vars, ghost_vars,
                   ncalls, ninits, ref, mpi, test>>

\* The loop condition of VIStep4_0IterateWinLose and VIStep4_1IterateTie.
VIIterateAgain(updated, i, largest) == updated \/ i <= largest + 1

\* The end of one parallel loop: the next iteration, the passage from
\* VIStep4_0IterateWinLose to VIStep4_1IterateTie, or the end of
\* VIStep4Iterate.
VIStep4Iterate ==
    LET largest == IF vi.kind = "win_lose"
                   THEN vi.largest_win_lose_remoteness
                   ELSE vi.largest_tie_remoteness
    IN
    /\ pc = "vi4"
    /\ vi.todo = {}
    /\ \A t \in Threads : vi.thr[t].st = "idle"
    /\ IF vi.failed
       THEN /\ pc' = "vi_bailout"
            /\ hist' = [hist EXCEPT !.fault = TRUE]
            /\ UNCHANGED vi
       ELSE IF VIIterateAgain(vi.updated, vi.iteration + 1, largest)
       THEN /\ vi' = [vi EXCEPT !.iteration = @ + 1, !.updated = FALSE,
                                !.todo = 0 .. (this_tier_size - 1)]
            /\ UNCHANGED <<pc, hist>>
       ELSE IF vi.kind = "win_lose"
       THEN /\ vi' = [vi EXCEPT !.kind = "tie", !.iteration = 1,
                                !.updated = FALSE,
                                !.todo = 0 .. (this_tier_size - 1)]
            /\ UNCHANGED <<pc, hist>>
       ELSE /\ vi' = [vi EXCEPT !.loaded = FALSE, !.kind = "none"]
            /\ pc' = "vi5"
            /\ UNCHANGED hist
    /\ UNCHANGED <<game, tiers, fr, quixo, disk, module_vars, solving, args, ret, solved,
                   push_vars, nwrites, entry, result, solution, ncalls,
                   ninits, ref, mpi, test>>

\* Variant of the inversion that only marks the undecided positions.
VIMarkedOnly(val) == IF val = kUndecided THEN kDraw ELSE val

\* VIStep5MarkDrawPositions: the value a position of value `val` is left
\* with (lines 1275-1279).
VIInverted(val) ==
    IF val = kUndecided THEN kDraw
    ELSE IF val = kDraw THEN kUndecided
    ELSE val

VIStep5MarkDrawPositions ==
    /\ pc = "vi5"
    /\ solving' = [solving EXCEPT !.rec =
         [p \in Pos |-> [@[p] EXCEPT !.value = VIInverted(@)]]]
    /\ hist' = [hist EXCEPT !.step5 = TRUE]
    /\ pc' = "vi6"
    /\ UNCHANGED <<game, tiers, fr, quixo, disk, module_vars, args, ret, solved, push_vars,
                   nwrites, entry, result, solution, ncalls, ninits,
                   ext_vars>>

\* VIStep6FlushDb and the success exit of TierWorkerSolveValueIteration.
VIStep6FlushDb(flush_ok) ==
    /\ pc = "vi6"
    /\ disk' = [disk EXCEPT ![this_tier] =
         IF flush_ok
         THEN [status |-> kDbTierStatusSolved, rec |-> solving.rec]
         ELSE [status |-> kDbTierStatusCorrupted, rec |-> @.rec]]
    /\ result' = solving.rec
    /\ vi' = [vi EXCEPT !.done = TRUE, !.rec = solving.rec]
    /\ solving' = NoSolvingTier
    /\ hist' = [hist EXCEPT !.flushed = TRUE, !.flush_failed = ~flush_ok]
    /\ solved' = TRUE
    /\ ret' = kNoError
    /\ pc' = "vi_bailout"
    /\ UNCHANGED <<game, tiers, fr, quixo, module_vars, args, push_vars, nwrites, entry,
                   solution, ncalls, ninits, ref, mpi, test>>

VIStep7Cleanup ==
    /\ pc = "vi_bailout"
    /\ this_tier' = kIllegalTier
    /\ this_tier_size' = kIllegalSize
    /\ child_tiers' = [size |-> 0, array |-> <<>>]
    /\ solving' = NoSolvingTier
    /\ vi' = [vi EXCEPT !.loaded = FALSE, !.kind = "none", !.iteration = 0,
                        !.updated = FALSE, !.failed = FALSE, !.todo = {}]
    /\ pc' = "idle"
    /\ UNCHANGED <<game, tiers, fr, quixo, disk, current_api, frontier_arrays, frontier,
                   num_undecided_children, reverse_graph, use_reverse_graph,
                   num_threads, args, ret, solved, push_vars, ghost_vars,
                   ncalls, ninits, ref, mpi, test>>

\* Solves of a loop-free tier by the loopy algorithm and by value
\* iteration.
NextVI ==
    \/ \E api \in {"NULL", "game"} :
         ninits < MaxVIInits /\ TierWorkerInit(api)
    \/ \E tier \in TiersToSolve, force \in BOOLEAN :
         /\ ncalls - vi.calls < MaxLoopyCalls
         /\ TierWorkerSolve(tier, force, FALSE)
    \/ SolveSteps
    \/ \E tier \in TiersToSolve, force \in BOOLEAN :
         TierWorkerSolveValueIteration(tier, force)
    \/ \E ok \in BOOLEAN : VIStep0Initialize(ok)
    \/ \E ok \in BOOLEAN : VIStep1LoadChildren(ok)
    \/ \E ok \in BOOLEAN : VIStep3SetupSolvingTier(ok)
    \/ VIStep4ScanTier
    \/ \E t \in Threads, ok \in BOOLEAN : VIProcessPosition(t, ok)
    \/ \E t \in Threads : VISetRemoteness(t)
    \/ VIStep4Iterate
    \/ VIStep5MarkDrawPositions
    \/ \E ok \in BOOLEAN : VIStep6FlushDb(ok)
    \/ VIStep7Cleanup

SpecVI == InitState(LoopFreeGames, ChildDbs) /\ [][NextVI]_vars

\* A canonical child tier of NumSymPos positions, so that the parallel
\* scan of VIStep1LoadChildren meets several records, of remoteness 1 ..
\* MaxScanRemoteness.
WideChildTier ==
    [canonical |-> ChildTierOf, size |-> NumSymPos,
     symm |-> [c \in SymPos |-> c]]
WideChildDbs ==
    [SymPos -> {Rec(v, r) : v \in {kLose, kTie},
                            r \in 1 .. MaxScanRemoteness}]

\* Solves of a loop-free tier by value iteration.
NextVIScan ==
    \/ \E api \in {"NULL", "game"} :
         ninits < MaxVIInits /\ TierWorkerInit(api)
    \/ \E tier \in TiersToSolve, force \in BOOLEAN :
         TierWorkerSolveValueIteration(tier, force)
    \/ \E ok \in BOOLEAN : VIStep0Initialize(ok)
    \/ \E ok \in BOOLEAN : VIStep1LoadChildren(ok)
    \/ \E ok \in BOOLEAN : VIStep3SetupSolvingTier(ok)
    \/ VIStep4ScanTier
    \/ \E t \in Threads, ok \in BOOLEAN : VIProcessPosition(t, ok)
    \/ \E t \in Threads : VISetRemoteness(t)
    \/ VIStep4Iterate
    \/ VIStep5MarkDrawPositions
    \/ \E ok \in BOOLEAN : VIStep6FlushDb(ok)
    \/ VIStep7Cleanup

SpecVIScan ==
    /\ InitWorld(LoopFreeGames, {WideChildTier},
                 {DiskOf(cdb) : cdb \in WideChildDbs})
    /\ [][NextVIScan]_vars

\* The threads of a parallel loop run to its end, and the solver goes on
\* after the barrier that ends it.
SpecVIScanFair ==
    /\ SpecVIScan
    /\ WF_vars(\E t \in Threads : VIProcessPosition(t, TRUE))
    /\ WF_vars(\E t \in Threads : VISetRemoteness(t))
    /\ WF_vars(VIStep4Iterate)

----------------------------------------------------------------------------
(* The distributed worker loop *)

kTierMpiCommandSleep == "Sleep"
kTierMpiCommandTerminate == "Terminate"
kTierMpiCommandSolve == "Solve"
kTierMpiCommandForceSolve == "ForceSolve"

\* The messages of the worker, appended to those it has sent.
TierMpiWorkerSendCheck(sent) == Append(sent, <<"Check">>)
TierMpiWorkerSendReportSolved(sent) == Append(sent, <<"ReportSolved">>)
TierMpiWorkerSendReportLoaded(sent) == Append(sent, <<"ReportLoaded">>)
TierMpiWorkerSendReportError(sent, error) ==
    Append(sent, <<"ReportError", error>>)

\* The games and child databases the worker loop is run on.
MpiGames ==
    {g \in Games :
       \A p \in Pos :
          /\ g[p].legal
          /\ g[p].canon = p
          /\ \/ g[p].prim # kUndecided
             \/ p > 0 /\ g[p].kids = {<<TierIds[1], p - 1>>}}
MpiChildDbs == {[c \in CPos |-> Rec(kLose, 0)]}

\* The entry of TierWorkerMpiServe: the first Check.
TierWorkerMpiServe ==
    /\ pc = "idle"
    /\ ninits > 0
    /\ mpi.at = "off"
    /\ mpi' = [mpi EXCEPT !.at = "recv",
                          !.sent = TierMpiWorkerSendCheck(@)]
    /\ UNCHANGED <<game, tiers, fr, quixo, disk, module_vars, solving, call_vars, push_vars,
                   ghost_vars, ncalls, ninits, ref, vi, test>>

\* TierMpiWorkerRecv returns kTierMpiCommandSleep: sleep(1), then Check.
TierMpiWorkerRecvSleep ==
    /\ mpi.at = "recv"
    /\ mpi.ncommands < MaxCommands
    /\ mpi' = [mpi EXCEPT !.command = kTierMpiCommandSleep,
                          !.ncommands = @ + 1,
                          !.sent = TierMpiWorkerSendCheck(@)]
    /\ UNCHANGED <<game, tiers, fr, quixo, disk, module_vars, solving, call_vars, push_vars,
                   ghost_vars, ncalls, ninits, ref, vi, test>>

\* TierMpiWorkerRecv returns kTierMpiCommandTerminate: the loop is left
\* and TierWorkerMpiServe returns kNoError.
TierMpiWorkerRecvTerminate ==
    /\ mpi.at = "recv"
    /\ mpi' = [mpi EXCEPT !.command = kTierMpiCommandTerminate,
                          !.at = "returned"]
    /\ UNCHANGED <<game, tiers, fr, quixo, disk, module_vars, solving, call_vars, push_vars,
                   ghost_vars, ncalls, ninits, ref, vi, test>>

\* TierMpiWorkerRecv returns a solve command: TierWorkerSolve is called.
TierMpiWorkerRecvSolve(command, tier) ==
    /\ mpi.at = "recv"
    /\ mpi.ncommands < MaxCommands
    /\ TierWorkerSolveEntry(tier, command = kTierMpiCommandForceSolve, FALSE)
    /\ mpi' = [mpi EXCEPT !.command = command, !.ncommands = @ + 1,
                          !.at = "solving"]
    /\ UNCHANGED <<ref, vi, test>>

\* Variant of the reply that sends a Check of its own after the report.
TierMpiWorkerReplyThenCheck(sent, error, is_solved) ==
    Append(Append(sent, IF error # kNoError THEN <<"ReportError", error>>
                        ELSE IF is_solved THEN <<"ReportSolved">>
                        ELSE <<"ReportLoaded">>),
           <<"Check">>)

\* The reply that follows the return of TierWorkerSolve.
TierMpiWorkerReply(sent, error, is_solved) ==
    IF error # kNoError THEN TierMpiWorkerSendReportError(sent, error)
    ELSE IF is_solved THEN TierMpiWorkerSendReportSolved(sent)
    ELSE TierMpiWorkerSendReportLoaded(sent)

\* TierWorkerSolve has returned: the worker reports and receives again.
TierWorkerMpiServeReport ==
    /\ mpi.at = "solving"
    /\ pc = "idle"
    /\ mpi' = [mpi EXCEPT !.at = "recv",
                          !.sent = TierMpiWorkerReply(@, ret, solved)]
    /\ UNCHANGED <<game, tiers, fr, quixo, disk, module_vars, solving, call_vars, push_vars,
                   ghost_vars, ncalls, ninits, ref, vi, test>>

\* The steps of the worker process in the loop.
WorkerSteps == TierWorkerMpiServe \/ SolveSteps \/ TierWorkerMpiServeReport

NextMpi ==
    \/ \E api \in {"NULL", "game"} :
         ninits < MaxMpiInits /\ mpi.at = "off" /\ TierWorkerInit(api)
    \/ TierWorkerMpiServe
    \/ TierMpiWorkerRecvSleep
    \/ TierMpiWorkerRecvTerminate
    \/ \E command \in {kTierMpiCommandSolve, kTierMpiCommandForceSolve},
          tier \in TiersToSolve : TierMpiWorkerRecvSolve(command, tier)
    \/ SolveSteps
    \/ TierWorkerMpiServeReport

SpecMpi == InitState(MpiGames, MpiChildDbs) /\ [][NextMpi]_vars

\* The worker process keeps running, and the manager, which has a bounded
\* number of other commands, sends Terminate in the end.
SpecMpiFair ==
    /\ SpecMpi
    /\ WF_vars(WorkerSteps)
    /\ WF_vars(\E api \in {"NULL", "game"} :
                 ninits < MaxMpiInits /\ mpi.at = "off" /\ TierWorkerInit(api))
    /\ WF_vars(TierMpiWorkerRecvTerminate)

----------------------------------------------------------------------------
(* TierWorkerTest *)

kTierSolverTestNoError == "kTierSolverTestNoError"
kTierSolverTestTierSymmetrySelfMappingError ==
    "kTierSolverTestTierSymmetrySelfMappingError"
kTierSolverTestTierSymmetryInconsistentError ==
    "kTierSolverTestTierSymmetryInconsistentError"
kTierSolverTestIllegalChildError == "kTierSolverTestIllegalChildError"
kTierSolverTestChildParentMismatchError ==
    "kTierSolverTestChildParentMismatchError"
kTierSolverTestParentChildMismatchError ==
    "kTierSolverTestParentChildMismatchError"

\* The pseudo-random number generator: a state, set by init_genrand64 from
\* the seed alone and advanced by every genrand64_int63, whose result is
\* the new state (a non-negative integer).
MtModulus == 65536
MtIncrement == 40503
init_genrand64(seed) == seed % MtModulus
genrand64_int63(mt) == (mt + MtIncrement) % MtModulus

\* The state of the generator after `draws` calls of genrand64_int63.
Genrand64After(mt, draws) == (mt + draws * MtIncrement) % MtModulus

\* The games TierWorkerTest is run on: any answers of the game API,
\* consistent or not.
TestPositionOptions(p) ==
    {o \in PositionOptions(p) :
       o.prim \in {kUndecided, kWin} /\ Cardinality(o.kids) <= 1}
TestGames ==
    {g \in [Pos -> UNION {TestPositionOptions(p) : p \in Pos}] :
       \A p \in Pos : g[p] \in TestPositionOptions(p)}

\* The parent tiers of `tier` the manager passes: the tier itself if one of
\* its positions has a child in it (no other tier has children in it).
ParentTiersOf(tier) ==
    IF \E p \in Pos : \E k \in game[p].kids : k[1] = tier
    THEN <<tier>>
    ELSE <<>>
TestSeeds == 1 .. NumSeeds
TestTierSizes == {NumPos, kTestSizeMax + 1}

\* A tier larger than NumPos repeats the positions of the game.
TestPositionOf(position) == position % NumPos

TestShouldSkip(tier, position) ==
    LET tier_position == <<tier, TestPositionOf(position)>>
    IN  \/ ~IsLegalPosition(tier_position)
        \/ Primitive(tier_position) # kUndecided

TestTierSymmetryRemoval(tier, position, canonical_tier) ==
    LET ApplySymm(tp, t) == GetPositionInSymmetricTier(tp, t)
        self == <<tier, TestPositionOf(position)>>
        symm == <<canonical_tier, ApplySymm(self, canonical_tier)>>
        self_in_self_tier == ApplySymm(self, self[1])
        symm_in_symm_tier == ApplySymm(symm, symm[1])
        self_in_symm_tier == ApplySymm(self, symm[1])
        symm_in_self_tier == ApplySymm(symm, self[1])
        new_self == ApplySymm(<<symm[1], self_in_symm_tier>>, self[1])
        new_symm == ApplySymm(<<self[1], symm_in_self_tier>>, symm[1])
    IN  IF self_in_self_tier # self[2]
        THEN kTierSolverTestTierSymmetrySelfMappingError
        ELSE IF symm_in_symm_tier # symm[2]
        THEN kTierSolverTestTierSymmetrySelfMappingError
        ELSE IF tier = canonical_tier THEN kTierSolverTestNoError
        ELSE IF new_self # self[2]
        THEN kTierSolverTestTierSymmetryInconsistentError
        ELSE IF new_symm # symm[2]
        THEN kTierSolverTestTierSymmetryInconsistentError
        ELSE kTierSolverTestNoError

\* A child outside tier `tier` is a legal position of the child tier.
TestChildPositions(tier, position, tier_size) ==
    LET children == GetCanonicalChildPositions(<<tier, TestPositionOf(position)>>)
        Size(t) == IF t = tier THEN tier_size ELSE GetTierSize(t)
    IN  IF \E child \in children :
             \/ child[2] < 0
             \/ child[2] >= Size(child[1])
             \/ child[1] = tier /\ ~IsLegalPosition(child)
        THEN kTierSolverTestIllegalChildError
        ELSE kTierSolverTestNoError

TestChildToParentMatching(tier, position) ==
    LET parent == <<tier, TestPositionOf(position)>>
        canonical_parent == GetCanonicalPosition(parent)
        children == GetCanonicalChildPositions(parent)
    IN  IF \E child \in children : canonical_parent \notin GameParents(child)
        THEN kTierSolverTestChildParentMismatchError
        ELSE kTierSolverTestNoError

TestParentToChildMatching(tier, position, parent_tiers) ==
    LET child == <<tier, TestPositionOf(position)>>
        canonical_child == <<tier, GetCanonicalPosition(child)>>
        Mismatch(parent_tier) ==
            \E parent \in GameParents(canonical_child) :
                /\ IsLegalPosition(<<parent_tier, parent>>)
                /\ Primitive(<<parent_tier, parent>>) = kUndecided
                /\ canonical_child \notin
                     GetCanonicalChildPositions(<<parent_tier, parent>>)
    IN  IF \E i \in 1 .. Len(parent_tiers) : Mismatch(parent_tiers[i])
        THEN kTierSolverTestParentChildMismatchError
        ELSE kTierSolverTestNoError

\* The body of TierWorkerTest's loop for one position: the first error of
\* its tests, or kTierSolverTestNoError.
TestOnePosition(tier, position, parent_tiers, tier_size) ==
    IF TestShouldSkip(tier, position) THEN kTierSolverTestNoError
    ELSE IF TestTierSymmetryRemoval(tier, position, GetCanonicalTier(tier))
              # kTierSolverTestNoError
    THEN TestTierSymmetryRemoval(tier, position, GetCanonicalTier(tier))
    ELSE IF TestChildPositions(tier, position, tier_size)
              # kTierSolverTestNoError
    THEN TestChildPositions(tier, position, tier_size)
    ELSE IF current_api = "NULL" THEN kTierSolverTestNoError
    ELSE IF TestChildToParentMatching(tier, position)
              # kTierSolverTestNoError
    THEN TestChildToParentMatching(tier, position)
    ELSE TestParentToChildMatching(tier, position, parent_tiers)

\* Variant of the seeding that keeps the state of the generator.
KeepGeneratorState(mt, seed) == mt

\* The state of the generator after TierWorkerTest's init_genrand64(seed).
SeedGenerator(mt, seed) == init_genrand64(seed)

\* TierWorkerTest; `tier_size` is the game's GetTierSize(tier).
TierWorkerTest(tier, parent_tiers, seed, tier_size) ==
    LET mt == SeedGenerator(test.mt, seed)
        random_test == tier_size > kTestSizeMax
        test_size == IF random_test THEN kTestSizeMax ELSE tier_size
        Position(i) == IF random_test
                       THEN Genrand64After(mt, i + 1) % tier_size
                       ELSE i
        Error(i) == TestOnePosition(tier, Position(i), parent_tiers, tier_size)
        failing == {i \in 0 .. (test_size - 1) :
                      Error(i) # kTierSolverTestNoError}
        first == CHOOSE i \in failing : \A j \in failing : i <= j
        draws == IF failing = {} THEN test_size ELSE first + 1
    IN
    /\ pc = "idle"
    /\ mpi.at = "off"
    /\ ninits > 0
    /\ Len(test.log) < MaxTests
    /\ test' =
         [mt |-> IF random_test THEN Genrand64After(mt, draws) ELSE mt,
          supplied |-> test.supplied,
          log |-> Append(test.log,
                    [tier |-> tier, parent_tiers |-> parent_tiers,
                     seed |-> seed, tier_size |-> tier_size,
                     api |-> current_api, supplied |-> test.supplied,
                     examined |-> [k \in 1 .. draws |-> Position(k - 1)],
                     result |-> IF failing = {} THEN kTierSolverTestNoError
                                ELSE Error(first)])]
    /\ UNCHANGED <<game, tiers, fr, quixo, disk, module_vars, solving, call_vars, push_vars,
                   ghost_vars, ncalls, ninits, ref, mpi, vi>>

NextTest ==
    \/ \E api \in {"NULL", "game"} :
         ninits < MaxTestInits /\ TierWorkerInit(api)
    \/ \E tier \in TiersToSolve, seed \in TestSeeds,
          tier_size \in TestTierSizes :
         TierWorkerTest(tier, ParentTiersOf(tier), seed, tier_size)

SpecTest == InitState(TestGames, MpiChildDbs) /\ [][NextTest]_vars

\* The same games with any answer of GetPositionInSymmetricTier.
TestSymmetryGames ==
    {g \in [Pos -> UNION {{[o EXCEPT !.symm = q] : q \in Pos} :
                           o \in UNION {TestPositionOptions(p) : p \in Pos}}] :
       \A p \in Pos : [g[p] EXCEPT !.symm = p] \in TestPositionOptions(p)}

\* TierWorkerTest on a tier of NumPos positions, before and after solves of
\* the tier.
NextTestSolve ==
    \/ \E api \in {"NULL", "game"} : TierWorkerInit(api)
    \/ \E tier \in TiersToSolve, force \in BOOLEAN :
         TierWorkerSolve(tier, force, FALSE)
    \/ SolveSteps
    \/ \E tier \in TiersToSolve :
         /\ Len(test.log) < MaxOrderTests
         /\ TierWorkerTest(tier, ParentTiersOf(tier), 1, NumPos)

SpecTestSolve ==
    InitState(TestSymmetryGames, MpiChildDbs) /\ [][NextTestSolve]_vars

----------------------------------------------------------------------------
Next ==
    \/ \E api \in {"NULL", "game"} : TierWorkerInit(api)
    \/ \E tier \in TiersToSolve, force \in BOOLEAN :
         TierWorkerSolve(tier, force, FALSE)
    \/ \E outcome \in Step0Outcomes : Step0Initialize(outcome)
    \/ \E c \in CPos, how \in {"probe", "FrontierAdd"} : Step1LoadChildren({c}, how)
    \/ Step1LoadChildren({}, "none")
    \/ \E outcome \in {"ok", "create", "calloc"} : Step2SetupSolverArrays(outcome)
    \/ \E fault \in {"none", "FrontierAdd", "ReverseGraphAdd"} : Step3ScanTier(fault)
    \/ \E ok \in BOOLEAN : PushFrontierHelperBegin(ok)
    \/ \E t \in Threads, ok \in BOOLEAN : TakeRecord(t, ok)
    \/ \E t \in Threads, ok \in BOOLEAN : ProcessLoseOrTiePosition(t, ok)
    \/ \E t \in Threads : DecrementIfNonZeroLoad(t)
    \/ \E t \in Threads, ok \in BOOLEAN : ProcessWinPosition(t, ok)
    \/ PushFrontierHelperEnd
    \/ Step4PushFrontierUp
    \/ Step5MarkDrawPositions
    \/ \E ok \in BOOLEAN : Step6SaveValues(ok)
    \/ \E crash \in BOOLEAN : Step7Cleanup(crash)

Spec == Init /\ [][Next]_vars

----------------------------------------------------------------------------
(* Properties *)

\* The last call was a full solve that returned success and whose table
\* is the tier's content in the database.
SolveSucceeded ==
    /\ pc = "idle"
    /\ ncalls > 0
    /\ ret = kNoError
    /\ solved
    /\ DbManagerTierStatus(args.tier) = kDbTierStatusSolved

\* Recorded value and remoteness of a position of any tier.
V(tp) == DbManagerProbeValue(tp)
R(tp) == DbManagerProbeRemoteness(tp)
Self(p) == <<args.tier, p>>
Children(p) == GetCanonicalChildPositions(Self(p))

\* C1 (win certificate): after a successful solve every legal canonical
\* non-primitive position recorded as win has a child recorded as lose with
\* remoteness R(p)-1 and no child recorded as lose with a smaller one.
C1_WinCertificate ==
    SolveSucceeded =>
      \A p \in Pos : (Inner(p) /\ V(Self(p)) = kWin) =>
        /\ \E c \in Children(p) : V(c) = kLose /\ R(c) = R(Self(p)) - 1
        /\ \A c \in Children(p) : V(c) = kLose => R(c) >= R(Self(p)) - 1

\* A win position with two losing children of different remoteness.
C1_Witness ==
    /\ SolveSucceeded
    /\ \E p \in Pos : /\ Inner(p)
                      /\ V(Self(p)) = kWin
                      /\ \E c, d \in Children(p) :
                           /\ V(c) = kLose /\ V(d) = kLose
                           /\ R(c) = R(Self(p)) - 1
                           /\ R(d) > R(c)

\* C2 (lose certificate): after a successful solve every legal canonical
\* non-primitive position recorded as lose has only children recorded as
\* win, the largest remoteness among them being R(p)-1; a position whose
\* only child is a primitive win of the child tier is lose in 1.
C2_LoseCertificate ==
    SolveSucceeded =>
      \A p \in Pos :
        /\ (Inner(p) /\ V(Self(p)) = kLose) =>
             /\ \A c \in Children(p) : V(c) = kWin /\ R(c) <= R(Self(p)) - 1
             /\ \E c \in Children(p) : R(c) = R(Self(p)) - 1
        /\ (/\ Inner(p)
            /\ \E c \in CPos : /\ Children(p) = {<<ChildTierOf, c>>}
                               /\ V(<<ChildTierOf, c>>) = kWin
                               /\ R(<<ChildTierOf, c>>) = 0) =>
             (V(Self(p)) = kLose /\ R(Self(p)) = 1)

\* A lose position with two winning children of different remoteness.
C2_Witness ==
    /\ SolveSucceeded
    /\ \E p \in Pos : /\ Inner(p)
                      /\ V(Self(p)) = kLose
                      /\ \E c, d \in Children(p) : R(c) < R(d)

\* C3 (tie certificate): after a successful solve every legal canonical
\* non-primitive position recorded as tie has no child recorded as lose and
\* a child recorded as tie with remoteness R(p)-1; a position with a losing
\* child is win and one whose children all win is lose, although the tie
\* path zeroes counters.
C3_TieCertificate ==
    SolveSucceeded =>
      \A p \in Pos : Inner(p) =>
        /\ V(Self(p)) = kTie =>
             /\ \A c \in Children(p) : V(c) # kLose
             /\ \E c \in Children(p) : V(c) = kTie /\ R(c) = R(Self(p)) - 1
        /\ (\E c \in Children(p) : V(c) = kLose) => V(Self(p)) = kWin
        /\ (\A c \in Children(p) : V(c) = kWin) => V(Self(p)) = kLose

\* A tie position whose counter was 2 when the tie path zeroed it: it has a
\* tying child and a winning child.
C3_Witness ==
    /\ SolveSucceeded
    /\ \E p \in Pos : /\ Inner(p)
                      /\ V(Self(p)) = kTie
                      /\ \E c, d \in Children(p) : V(c) = kTie /\ V(d) = kWin

\* C4 (draw closure): after a successful solve every legal canonical
\* position recorded as draw has no child recorded as lose, none recorded
\* as tie, and at least one recorded as draw.
C4_DrawClosure ==
    SolveSucceeded =>
      \A p \in Pos : (Valid(p) /\ V(Self(p)) = kDraw) =>
        /\ \A c \in Children(p) : V(c) # kLose /\ V(c) # kTie
        /\ \E c \in Children(p) : V(c) = kDraw

\* A draw position with a drawing child and a winning child.
C4_Witness ==
    /\ SolveSucceeded
    /\ \E p \in Pos : /\ Valid(p)
                      /\ V(Self(p)) = kDraw
                      /\ \E c, d \in Children(p) : V(c) = kDraw /\ V(d) = kWin

\* The primitive positions the scan writes.
Prims == {p \in Pos : Valid(p) /\ game[p].prim # kUndecided}

\* C5 (primitive preservation): the scan leaves every legal canonical
\* primitive position with its primitive value, remoteness 0 and counter
\* 0; phases 4 and 5 do not change that record, and after a successful
\* solve it is the position's record in the database.
C5_PrimitivePreservation ==
    /\ pc \in {"step4", "step5", "step6"} =>
         \A p \in Prims : solving.rec[p] = Rec(game[p].prim, 0)
    /\ pc = "step4" => \A p \in Prims : num_undecided_children.cell[p] = 0
    /\ SolveSucceeded =>
         \A p \in Prims : V(Self(p)) = game[p].prim /\ R(Self(p)) = 0

\* A successful solve in which the game API named a primitive position a
\* parent of a losing position of the child tier.
C5_Witness ==
    /\ SolveSucceeded
    /\ hist.mode = "game"
    /\ \E p \in Prims : \E c \in CPos :
         /\ V(<<ChildTierOf, c>>) = kLose
         /\ p \in GameParents(<<ChildTierOf, c>>)

\* C6 (uniqueness of write): in one solve the record of a position is
\* written at most once across phases 3, 4 and 5, under every interleaving.
C6_WriteOnce == \A p \in Pos : nwrites[p] <= 1

\* A thread is about to exchange the counter of a parent that another
\* thread has just written.
C6_Witness ==
    /\ pc = "step4"
    /\ \E t \in Threads : /\ thr[t].st = "exchange"
                          /\ Inner(Head(thr[t].parents))
                          /\ nwrites[Head(thr[t].parents)] = 1
                          /\ \E u \in Threads \ {t} : thr[u].st # "idle"

\* C7 (counter monotonicity): no step of phase 4 increases a counter; in
\* particular a counter that is 0 stays 0.
C7_CounterMonotonic ==
    [][pc = "step4" =>
         \A p \in Pos : num_undecided_children'.cell[p]
                          <= num_undecided_children.cell[p]]_vars

\* DecrementIfNonZero is about to load the counter of a non-primitive
\* parent that is already 0.
C7_Witness ==
    /\ pc = "step4"
    /\ \E t \in Threads : /\ thr[t].st = "load"
                          /\ Inner(Head(thr[t].parents))
                          /\ num_undecided_children.cell[Head(thr[t].parents)] = 0

\* C8 (reverse graph): the table computed with the reverse graph equals
\* the one computed with the game's GetCanonicalParentPositions.
C8_ReverseGraphEquivalence ==
    (solution["game"].done /\ solution["reverse_graph"].done) =>
      solution["game"].rec = solution["reverse_graph"].rec

\* Both kinds of solve have been run on a tier where propagation decided a
\* non-primitive position through a child of the child tier.
C8_Witness ==
    /\ solution["game"].done
    /\ solution["reverse_graph"].done
    /\ \E p \in Pos : /\ Inner(p)
                      /\ solution["reverse_graph"].rec[p].value = kLose
                      /\ \E c \in Children(p) : c[1] = ChildTierOf

\* The return of a call made without force on a tier the database reports
\* solved.
NoOpReturns ==
    /\ pc = "bailout"
    /\ pc' = "idle"
    /\ ~args.force
    /\ hist.status = kDbTierStatusSolved

\* C9 (idempotence): TierWorkerSolve(T, force = false) on a solved tier
\* returns success with *solved = false, calls no game API function,
\* creates, writes and flushes no solving table, and leaves the database
\* and the worker's module state as they were.
C9_SolvedTierNoOp ==
    [][NoOpReturns =>
         /\ ret' = kNoError
         /\ ~solved'
         /\ ~hist'.api_called
         /\ ~hist'.table_used
         /\ ~hist'.flushed
         /\ disk' = entry.disk
         /\ ModuleState' = entry.module]_vars

\* C10 (failure): a call in which a step of phases 0-4 failed returns a
\* non-success code with *solved = false, and performs neither draw
\* marking nor the flush.
C10_FailureReturned ==
    hist.fault =>
      /\ pc # "crashed"
      /\ pc = "idle" => (ret # kNoError /\ ~solved)
      /\ ~hist.step5
      /\ ~hist.flushed

\* C11 (flush failure): a call whose flush of the solving table failed
\* returns a non-success code and does not set *solved.
C11_FlushFailureReturned ==
    (pc = "idle" /\ hist.flush_failed) => (ret # kNoError /\ ~solved)

\* A call with compare that went through CompareDb with both probes
\* initialized and has returned.
Compared ==
    /\ pc = "idle"
    /\ args.compare
    /\ hist.compare \in {"passed", "mismatch"}

\* The positions at which the reference has a value and the fresh table
\* differs from it in value or remoteness.
Divergent ==
    {p \in Pos : /\ ref[p].value # kUndecided
                 /\ \/ result[p].value # ref[p].value
                    \/ result[p].remoteness # ref[p].remoteness}

\* The call failed, with *solved = false, exactly when the fresh table
\* diverges from the reference, and CompareDb stopped at the first
\* divergence in ascending order.
FailedIffDivergent ==
    /\ (ret # kNoError) <=> (Divergent # {})
    /\ solved <=> (Divergent = {})
    /\ Divergent # {} =>
         /\ hist.cmp_pos \in Divergent
         /\ \A p \in Divergent : hist.cmp_pos <= p
    /\ Divergent = {} => hist.cmp_pos = NumPos

\* C12 (compare): a call with compare fails, with *solved = false, exactly
\* when at some position the reference value is not undecided and the
\* fresh table differs in value or remoteness; positions are compared in
\* ascending order and the comparison stops at the first divergence.
C12_CompareIffDivergence == Compared => FailedIffDivergent

\* The same for the calls whose flush succeeded: the database then holds
\* the fresh table.
C12_CompareAfterFlush == (Compared /\ ~hist.flush_failed) => FailedIffDivergent

\* A comparison after a successful flush returned failure because of the
\* remoteness alone, at the second position, the first one being skipped
\* as undecided in the reference.
C12_Witness ==
    /\ Compared
    /\ ~hist.flush_failed
    /\ ret # kNoError
    /\ ~solved
    /\ hist.cmp_pos = 1
    /\ ref[0].value = kUndecided
    /\ result[0].value # kUndecided
    /\ ref[1].value = result[1].value
    /\ ref[1].remoteness # result[1].remoteness

\* C13 (compare code): the code returned for a compare mismatch differs
\* from kRuntimeError, the code of every other failure of a solve.
C13_CompareCodeDistinct ==
    (pc = "idle" /\ hist.compare = "mismatch") => ret # kRuntimeError

\* C14 (cleanup): Step7Cleanup, from every exit of TierWorkerSolve, only
\* operates on frontier arrays and frontiers that were allocated and
\* initialized, and so never makes the call die.
C14_CleanupSafe ==
    /\ pc = "bailout" => DestroyFrontiersDefined
    /\ pc # "crashed"

\* The three per-thread frontier arrays are not allocated.
FrontierArraysReleased == frontier_arrays = "null"

\* What Step7Cleanup releases and resets.
CleanupReleases ==
    /\ frontier = {}
    /\ child_tiers.size = 0
    /\ ~num_undecided_children.alloc
    /\ reverse_graph.state # "init"
    /\ ~solving.exists
    /\ this_tier = kIllegalTier
    /\ this_tier_size = kIllegalSize
    /\ num_threads = 0

\* C15 (release): when TierWorkerSolve has returned, the frontier arrays
\* and their buckets, child_tiers, the counters, the reverse graph and the
\* solving table are released and the per-solve module variables are
\* reset.
C15_AllReleased ==
    (pc = "idle" /\ ncalls > 0) =>
      /\ CleanupReleases
      /\ FrontierArraysReleased
      /\ ~use_reverse_graph

\* The part of C15 that Step7Cleanup does achieve.
C15_CleanupReleases == (pc = "idle" /\ ncalls > 0) => CleanupReleases

\* The frontier arrays stay allocated after a call that reached
\* Step0_0InitFrontiers.
C15_FrontierArraysReleased ==
    (pc = "idle" /\ ncalls > 0) => FrontierArraysReleased

\* C16 (remoteness range): every remoteness in the solving table and every
\* bucket index given to FrontierAdd lies in 0 .. kRemotenessMax, also
\* when a child record has remoteness kRemotenessMax.
C16_RemotenessInRange ==
    /\ \A p \in Pos : solving.rec[p].remoteness \in 0 .. kRemotenessMax
    /\ \A f \in frontier : f.rmt \in 0 .. kRemotenessMax

\* C17 (value iteration): on a loop-free tier with its child tier solved,
\* TierWorkerSolveValueIteration produces the table the loopy
\* TierWorkerSolve produces.
C17_ValueIterationEquivalence ==
    \A m \in {"game", "reverse_graph"} :
        (vi.done /\ solution[m].done) => vi.rec = solution[m].rec

\* The same for the tiers none of whose positions has a drawing child, in
\* the runs of value iteration in which no store of a largest remoteness
\* was lost and no record was read between its two writes.
C17_WithoutDrawChildren ==
    \A m \in {"game", "reverse_graph"} :
        (/\ vi.done
         /\ solution[m].done
         /\ ~vi.raced
         /\ \A p \in Pos : \A c \in game[p].kids :
              c[1] = ChildTierOf => disk[ChildTierOf].rec[c[2]].value # kDraw)
        => vi.rec = solution[m].rec

\* Value iteration without a race made a position with a winning and a
\* drawing child a lose, which the loopy solver made a draw.
C17_DrawChildScenario ==
    /\ vi.done
    /\ ~vi.raced
    /\ \E m \in {"game", "reverse_graph"}, p \in Pos :
         /\ solution[m].done
         /\ solution[m].rec[p].value = kDraw
         /\ vi.rec[p].value = kLose
         /\ \E c \in game[p].kids :
              c[1] = ChildTierOf /\ disk[ChildTierOf].rec[c[2]].value = kDraw

\* The worker is serving a solve command.
Serving == mpi.at = "solving"

\* What C18 says of the steps of the worker loop: the receipt of a solve
\* command calls TierWorkerSolve once, with force iff the command is
\* ForceSolve, and sends nothing; the solve itself neither calls
\* TierWorkerSolve again nor sends; its return is followed by exactly one
\* reply, ReportError(code), ReportSolved or ReportLoaded by the code and
\* *solved, and never ReportLoaded for a ForceSolve.
C18_OneCallOneReply ==
    [][/\ (~Serving /\ Serving') =>
            /\ ncalls' = ncalls + 1
            /\ args'.force = (mpi'.command = kTierMpiCommandForceSolve)
            /\ args'.tier \in TiersToSolve
            /\ mpi'.sent = mpi.sent
       /\ (Serving /\ Serving') =>
            /\ ncalls' = ncalls
            /\ mpi'.sent = mpi.sent
       /\ (Serving /\ ~Serving') =>
            /\ ncalls' = ncalls
            /\ mpi'.at = "recv"
            /\ Len(mpi'.sent) = Len(mpi.sent) + 1
            /\ LET reply == mpi'.sent[Len(mpi'.sent)]
               IN  /\ ret # kNoError => reply = <<"ReportError", ret>>
                   /\ (ret = kNoError /\ solved) => reply = <<"ReportSolved">>
                   /\ (ret = kNoError /\ ~solved) => reply = <<"ReportLoaded">>
                   /\ mpi.command = kTierMpiCommandForceSolve =>
                        reply # <<"ReportLoaded">>
       /\ (~Serving /\ ~Serving') => ncalls' = ncalls]_vars

\* C18 (replies): every Solve or ForceSolve command the worker receives is
\* answered with one reply: the worker serving it has not died.
C18_EveryCommandAnswered == Serving => pc # "crashed"

\* What C19 says of Sleep and Terminate: a Sleep is followed by one more
\* Check and no solve, a Terminate by the return of TierWorkerMpiServe
\* with no message, and the loop is left on Terminate only.
C19_SleepAndTerminate ==
    [][/\ mpi'.command = kTierMpiCommandSleep /\ mpi'.ncommands # mpi.ncommands
            => /\ mpi'.sent = Append(mpi.sent, <<"Check">>)
               /\ mpi'.at = "recv"
               /\ ncalls' = ncalls
               /\ pc' = "idle"
       /\ (mpi.at # "returned" /\ mpi'.at = "returned")
            => /\ mpi'.command = kTierMpiCommandTerminate
               /\ mpi'.sent = mpi.sent
               /\ ncalls' = ncalls
       /\ mpi.at = "returned" => mpi'.sent = mpi.sent]_vars

\* C19 (exit): the worker stops on Terminate only; a failed solve does not
\* end the loop.
C19_ExitsOnlyOnTerminate ==
    (mpi.at = "returned" \/ pc = "crashed") =>
       mpi.command = kTierMpiCommandTerminate

\* C19, liveness: once started, TierWorkerMpiServe returns in the end,
\* unless the worker dies in a solve.
C19_EventuallyReturns ==
    (mpi.at # "off") ~> (mpi.at = "returned" \/ pc = "crashed")

\* The number of sample draws the claim gives a call of TierWorkerTest.
SampleSize(call) ==
    IF call.tier_size <= kTestSizeMax THEN call.tier_size ELSE kTestSizeMax

TestCalls == {test.log[i] : i \in 1 .. Len(test.log)}

\* The positions of a call are those the claim describes: 0, 1, ... in
\* ascending order on a tier of at most kTestSizeMax positions, otherwise
\* the draws of the generator seeded with the caller's seed, each inside
\* the tier.
SampleAsClaimed(call) ==
    \A k \in 1 .. Len(call.examined) :
        /\ call.examined[k] \in 0 .. (call.tier_size - 1)
        /\ call.examined[k] =
             IF call.tier_size <= kTestSizeMax THEN k - 1
             ELSE Genrand64After(init_genrand64(call.seed), k) % call.tier_size

\* Two calls with the same tier, seed and game API examine the same
\* positions and return the same result.
SameCallSameOutcome ==
    \A c, d \in TestCalls :
        (/\ c.tier = d.tier
         /\ c.parent_tiers = d.parent_tiers
         /\ c.seed = d.seed
         /\ c.tier_size = d.tier_size
         /\ c.api = d.api)
        => (c.examined = d.examined /\ c.result = d.result)

DecrementReturns(v, n) ==
    [i \in 1 .. (IF n < v THEN n ELSE v) |-> v - i + 1]

\* C22 (atomic counter operations): in one bucket, the calls of
\* DecrementIfNonZero on a counter that held v > 0 get back v, v-1, ...,
\* each once; the counter is v minus the number of calls, or 0 after v
\* calls, and the later calls get back 0; the call that gets back 1 writes
\* (lose, r+1) for the parent and no other call writes it.  Of the
\* exchanges of a counter to 0 exactly one gets back a non-zero value.
C22_UniqueTransition ==
    (pc = "step4" /\ level.active) =>
      \A p \in Pos :
        LET v == hist.start[p]
            n == hist.ops[p]
            cell == num_undecided_children.cell[p]
        IN  IF level.kind = "win"
            THEN /\ hist.got[p] = DecrementReturns(v, n)
                 /\ cell = (IF n < v THEN v - n ELSE 0)
                 /\ (v > 0 /\ n >= v) =>
                       /\ solving.rec[p] = Rec(kLose, level.r + 1)
                       /\ nwrites[p] = 1
                 /\ (v > 0 /\ n < v) => nwrites[p] = 0
            ELSE /\ hist.got[p] = (IF n > 0 /\ v > 0 THEN <<v>> ELSE <<>>)
                 /\ n > 0 => cell = 0
                 /\ (v > 0 /\ n > 0) => nwrites[p] = 1

\* A thread is about to compare-exchange with a value that another thread
\* has decremented in the meantime.
C22_Witness ==
    /\ pc = "step4"
    /\ level.active
    /\ level.kind = "win"
    /\ \E t \in Threads :
         /\ thr[t].st = "cas"
         /\ thr[t].cur = 2
         /\ num_undecided_children.cell[Head(thr[t].parents)] = 1
         /\ hist.got[Head(thr[t].parents)] = <<2>>

\* A counter that held 2 was exchanged to 0 twice in one bucket.
C22_ExchangedTwice ==
    /\ pc = "step4"
    /\ level.active
    /\ level.kind # "win"
    /\ \E p \in Pos : hist.start[p] = 2 /\ hist.ops[p] = 2

\* The place the claim gives a bucket in the order of phase 4.
ClaimedPlace(kind, r) ==
    CASE kind = "lose" -> 2 * r
      [] kind = "win" -> 2 * r + 1
      [] kind = "tie" -> 2 * (kRemotenessMax + 1) + r

\* C23 (bucket order): the buckets are pushed in the order lose(0),
\* win(0), lose(1), win(1), ..., then tie(0), tie(1), ...; while a bucket
\* is pushed no record is left in an earlier bucket, and between two
\* buckets no thread is at work and no record of the last bucket is left;
\* the threads at work are all exchanging or all decrementing, as the kind
\* of the bucket says.
C23_BucketOrder ==
    pc = "step4" =>
      /\ \A i, j \in 1 .. Len(hist.buckets) :
            i < j => ClaimedPlace(hist.buckets[i][1], hist.buckets[i][2])
                       < ClaimedPlace(hist.buckets[j][1], hist.buckets[j][2])
      /\ level.active =>
            /\ hist.buckets[Len(hist.buckets)] = <<level.kind, level.r>>
            /\ \A f \in frontier :
                  ClaimedPlace(f.kind, f.rmt) >= ClaimedPlace(level.kind, level.r)
      /\ ~level.active =>
            /\ AllIdle
            /\ pending = {}
            /\ \A f \in frontier : \A i \in 1 .. Len(hist.buckets) :
                  ClaimedPlace(f.kind, f.rmt)
                    > ClaimedPlace(hist.buckets[i][1], hist.buckets[i][2])
      /\ \A t \in Threads :
            /\ thr[t].st \in {"load", "cas"} => (level.active /\ level.kind = "win")
            /\ thr[t].st = "exchange" => (level.active /\ level.kind # "win")

\* A win bucket of remoteness 1 is being pushed after a lose bucket, a
\* thread is decrementing, and a tie record waits.
C23_Witness ==
    /\ pc = "step4"
    /\ level.active
    /\ level.kind = "win"
    /\ level.r = 1
    /\ Len(hist.buckets) >= 2
    /\ \E t \in Threads : thr[t].st # "idle"
    /\ \E f \in frontier : f.kind = "tie"

\* C24 (determinism): a loopy solve of a tier computes the table that an
\* earlier solve of the tier with the same source of parents computed,
\* whatever the interleaving of the threads in either.
C24_SameTable ==
    [][(pc = "step6" /\ pc' # "step6" /\ solution[hist.mode].done)
         => solution'[hist.mode].rec = solution[hist.mode].rec]_vars

\* The second of two successful solves with the same current_api has
\* returned; a position of the tier is lose by two winning children of
\* equal remoteness, whose counter two threads can decrement at once.
C24_Witness ==
    /\ pc = "idle"
    /\ ncalls = 2
    /\ ninits = 1
    /\ solved
    /\ args.force
    /\ entry.disk[args.tier].status = kDbTierStatusSolved
    /\ \E p \in Pos :
         /\ result[p].value = kLose
         /\ Cardinality(game[p].kids) = 2
         /\ \A c \in game[p].kids : R(c) = result[p].remoteness - 1

\* The record the solver holds for a position: that of the solving table
\* in the tier being solved, that of the database in a child tier.
RecordOf(tp) ==
    IF tp[1] = this_tier THEN solving.rec[tp[2]] ELSE disk[tp[1]].rec[tp[2]]

\* C25 (order of child indices): in every bucket of every per-thread
\* frontier the child indices given to FrontierAdd do not decrease in call
\* order; a record added while child tiers are loaded carries the index of
\* a child tier the loop has reached, and a record added by the tier scan
\* or by the propagation carries the last index, that of the tier itself.
C25_NonDecreasingChildIndex ==
    fr.at # "off" =>
      \A k \in FrKinds, t \in Threads, r \in FrRemoteness :
        LET bucket == fr.frontiers[k][t].buckets[r]
        IN  /\ \A i, j \in 1 .. Len(bucket) :
                 i < j => bucket[i].child_index <= bucket[j].child_index
            /\ \A i \in 1 .. Len(bucket) :
                 IF bucket[i].phase = "load"
                 THEN bucket[i].child_index <= fr.child_index
                      /\ bucket[i].child_index < child_tiers.size - 1
                 ELSE bucket[i].child_index = child_tiers.size - 1

\* A bucket holds, in this order, a record of the first child tier, one of
\* the second child tier and one added by the tier scan.
C25_Witness ==
    /\ fr.at = "step3"
    /\ \E k \in FrKinds, t \in Threads :
         LET bucket == fr.frontiers[k][t].buckets[0]
         IN  /\ Len(bucket) = 3
             /\ bucket[1].child_index = 0 /\ bucket[1].phase = "load"
             /\ bucket[2].child_index = 1 /\ bucket[2].phase = "load"
             /\ bucket[3].child_index = 2 /\ bucket[3].phase = "scan"

\* The records of a bucket over all threads in the order of the loop index
\* of PushFrontierHelper: those of thread id 0 first; each with the thread
\* id of the frontier that holds it.
RECURSIVE RecordsInLoopOrder(_, _, _)
RecordsInLoopOrder(frontiers, remoteness, n) ==
    IF n = 0 THEN <<>>
    ELSE RecordsInLoopOrder(frontiers, remoteness, n - 1)
         \o [i \in 1 .. Len(frontiers[n].buckets[remoteness]) |->
               [holder |-> n - 1,
                record |-> frontiers[n].buckets[remoteness][i]]]

\* C26 (recovery of the tier): every iteration of the loop of
\* PushFrontierHelper finds, without reading behind the offsets or the
\* dividers, the frontier that holds the record of its index and the child
\* index the record was added with, and so the tier position it was added
\* for.
C26_TierRecovered ==
    [][(fr.at = "helper" /\ fr'.at \in {"helper", "overrun"} /\ fr' # fr) =>
         LET taken == RecordsInLoopOrder(fr.frontiers[fr.kind],
                                         fr.remoteness, num_threads)[fr.next + 1]
         IN  /\ fr'.at = "helper"
             /\ fr'.last.i = fr.next
             /\ fr'.last.frontier_id = taken.holder
             /\ fr'.last.child_index = taken.record.child_index
             /\ fr'.last.tier_position =
                  <<child_tiers.array[taken.record.child_index + 1],
                    taken.record.position>>]_vars

\* In a bucket where the frontier of thread id 0 is empty and that of
\* thread id 1 holds a record of the second child tier followed by one
\* added after the dividers were accumulated, the loop has just recovered
\* the second record.
C26_Witness ==
    /\ fr.at = "helper"
    /\ child_tiers.size = 3
    /\ fr.next = 2
    /\ fr.last.i = 1
    /\ fr.last.frontier_id = 1
    /\ fr.last.child_index = 2
    /\ Len(fr.frontiers[fr.kind][1].buckets[fr.remoteness]) = 0
    /\ LET bucket == fr.frontiers[fr.kind][2].buckets[fr.remoteness]
       IN  /\ Len(bucket) = 2
           /\ bucket[1].phase = "load" /\ bucket[1].child_index = 1
           /\ bucket[2].phase = "push"

\* C31 (phase 5): when phase 5 starts no legal canonical position of the
\* tier has counter 0 and an undecided record, and when phase 5 has run
\* every legal canonical position is recorded as win, lose, tie or draw.
C31_NoneLeftUndecided ==
    /\ pc = "step5" =>
         \A p \in Pos : Valid(p) =>
            ~(/\ num_undecided_children.cell[p] = 0
              /\ solving.rec[p].value = kUndecided)
    /\ pc = "step6" =>
         \A p \in Pos : Valid(p) =>
            solving.rec[p].value \in {kWin, kLose, kTie, kDraw}

\* Phase 5 starts with a position of child counter 0 that the propagation
\* has decided, next to one it will mark as draw.
C31_DecidedAndDrawScenario ==
    /\ pc = "step5"
    /\ \E p, q \in Pos :
         /\ Inner(p) /\ Inner(q)
         /\ num_undecided_children.cell[p] = 0
         /\ solving.rec[p].value = kLose
         /\ num_undecided_children.cell[q] > 0

\* C32 (skipped positions): when a solve by either algorithm has passed
\* its phase 5, every position of the tier that is illegal or not canonical
\* has the value undecided, and the loopy solver has not written it.
C32_SkippedStayUndecided ==
    \A p \in Pos : ~Valid(p) =>
       /\ pc \in {"step6", "vi6"} => solving.rec[p].value = kUndecided
       /\ pc = "step6" => nwrites[p] = 0

\* Value iteration has passed its phase 5 on a tier with a skipped
\* position, a position marked as draw and a position decided by a sweep.
C32_Witness ==
    /\ pc = "vi6"
    /\ \E p, q \in Pos :
         /\ ~Valid(p)
         /\ Inner(q)
         /\ solving.rec[p].value = kUndecided
         /\ solving.rec[q].value \in {kDraw, kWin, kLose}

\* The loopy solver has passed its phase 5 on a tier whose game returns an
\* illegal position as a parent of a decided child.
C32_WitnessLoopy ==
    /\ pc = "step6"
    /\ current_api = "game"
    /\ \E p \in Pos, c \in CPos :
         /\ ~game[p].legal
         /\ disk[ChildTierOf].rec[c].value = kLose
         /\ hist.calls[<<ChildTierOf, c>>] = 1
         /\ solving.rec[p].value = kUndecided

\* The value and the remoteness recorded for a child of a position of the
\* tier: in the solving table inside the tier, in the database outside.
RecordedFor(c) == IF c[1] = 1 THEN solving.rec[c[2]] ELSE disk[c[1]].rec[c[2]]

\* A sweep of value iteration writes lose to position p in this step.
WrittenLose(p) ==
    /\ pc = "vi4"
    /\ solving.rec[p].value = kUndecided
    /\ solving'.rec[p].value = kLose

\* C33 (lose by value iteration): sweep i writes lose to an undecided
\* position only if every canonical child of the position is recorded as
\* win and the largest remoteness of its children is i - 1.
C33_LoseOnlyIfAllWin ==
    [][\A p \in Pos : WrittenLose(p) =>
          /\ game[p].kids # {}
          /\ \A c \in game[p].kids : RecordedFor(c).value = kWin
          /\ \A c \in game[p].kids :
                RecordedFor(c).remoteness <= vi.iteration - 1
          /\ \E c \in game[p].kids :
                RecordedFor(c).remoteness = vi.iteration - 1]_vars

\* The same where no child of the position is recorded as draw and no
\* child is between the two writes of its record.
C33_LoseWithoutDrawChildren ==
    [][\A p \in Pos :
          (/\ WrittenLose(p)
           /\ \A c \in game[p].kids : RecordedFor(c).value # kDraw
           /\ \A t \in Threads : vi.thr[t].st = "set_remoteness" =>
                 <<1, vi.thr[t].pos>> \notin game[p].kids) =>
          /\ game[p].kids # {}
          /\ \A c \in game[p].kids : RecordedFor(c).value = kWin
          /\ \A c \in game[p].kids :
                RecordedFor(c).remoteness <= vi.iteration - 1
          /\ \E c \in game[p].kids :
                RecordedFor(c).remoteness = vi.iteration - 1]_vars

\* The step that leaves the win/lose loop (kind "win_lose") or the tie loop
\* (kind "tie") of the value iteration without a failure.
LoopEnds(kind) ==
    /\ pc = "vi4"
    /\ vi.kind = kind
    /\ vi'.kind # kind
    /\ pc' # "vi_bailout"

\* The sweep indices that follow the last sweep of a loop, as far as a
\* remoteness of the tables can reach.
LaterSweeps ==
    (vi.iteration + 1) .. (vi.iteration + NumPos + MaxScanRemoteness + 1)

\* The positions a sweep of the given index would still decide.
DecidedByWinLoseSweep(j) ==
    {p \in Pos : /\ solving.rec[p].value = kUndecided
                 /\ IterateWinLoseProcessPosition(j, p) # kUndecided}
DecidedByTieSweep(j) ==
    {p \in Pos : /\ solving.rec[p].value = kUndecided
                 /\ IterateTieProcessPosition(j, p) # kUndecided}

\* The largest remoteness of the records of the child tiers that have one
\* of the given values, 0 if there are none.
MaximumRemoteness(values) ==
    LET rs == {0} \cup
              UNION {{disk[child_tiers.array[i]].rec[c].remoteness :
                        c \in {c \in 0 .. (GetTierSize(child_tiers.array[i]) - 1) :
                                 disk[child_tiers.array[i]].rec[c].value \in values}} :
                     i \in 1 .. child_tiers.size}
    IN  CHOOSE r \in rs : \A q \in rs : q <= r

\* C34: on a loop-free tier the win/lose loop and the tie loop of the
\* value iteration each stop only after at least R + 1 sweeps (R the
\* largest win/lose, respectively tie, remoteness of the child tiers), the
\* last of which has an index above R and made no update, and at that
\* point no undecided position would be decided by a later sweep index.
C34_StopsAtFixedPoint ==
    [][/\ LoopEnds("win_lose") =>
            /\ vi.iteration >= MaximumRemoteness({kWin, kLose}) + 1
            /\ ~vi.updated
            /\ \A j \in LaterSweeps : DecidedByWinLoseSweep(j) = {}
       /\ LoopEnds("tie") =>
            /\ vi.iteration >= MaximumRemoteness({kTie}) + 1
            /\ ~vi.updated
            /\ \A j \in LaterSweeps : DecidedByTieSweep(j) = {}]_vars

\* C34: the tie loop has stopped after sweep 2 although sweep 3 would
\* decide a position.
C34_StoppedEarlyScenario ==
    /\ pc = "vi5"
    /\ vi.iteration = 2
    /\ DecidedByTieSweep(3) # {}

\* C34: every loop of sweeps that was entered is left.
C34_LoopsTerminate == (pc = "vi4") ~> (pc # "vi4")

\* A sweep of the value iteration seen as one step on a table: the record
\* of a child, the value a sweep of the given index gives a position, and
\* the table it leaves.
RecordIn(table, c) ==
    IF c[1] = this_tier THEN table[c[2]] ELSE disk[c[1]].rec[c[2]]
SweepValue(table, kind, i, p) ==
    LET kids == {RecordIn(table, c) :
                   c \in GetCanonicalChildPositions(<<this_tier, p>>)}
        wins == {k \in kids : k.value = kWin}
    IN  IF kind = "tie"
        THEN IF Rec(kTie, i - 1) \in kids THEN kTie ELSE kUndecided
        ELSE IF Rec(kLose, i - 1) \in kids THEN kWin
        ELSE IF /\ \A k \in kids : k.value \in {kWin, kDraw}
                /\ IF wins = {} THEN i = 0
                   ELSE /\ Rec(kWin, i - 1) \in wins
                        /\ \A k \in wins : k.remoteness < i
        THEN kLose
        ELSE kUndecided
SweepOf(table, kind, i) ==
    [p \in Pos |->
       IF table[p].value = kUndecided /\ SweepValue(table, kind, i, p) # kUndecided
       THEN Rec(SweepValue(table, kind, i, p), i)
       ELSE table[p]]

\* The table a sweep that has ended had started from: its writes are the
\* records of its own index and kind.
SweepEnded ==
    /\ pc = "vi4"
    /\ vi.todo = {}
    /\ \A t \in Threads : vi.thr[t].st = "idle"
    /\ ~vi.failed
TableBeforeSweep ==
    [p \in Pos |->
       IF /\ solving.rec[p].remoteness = vi.iteration
          /\ solving.rec[p].value \in
               (IF vi.kind = "tie" THEN {kTie} ELSE {kWin, kLose})
       THEN Rec(kUndecided, 0)
       ELSE solving.rec[p]]

\* C36: the table a parallel sweep of the value iteration leaves on a
\* loop-free tier is the one table that follows from the table it started
\* from, whatever the order and interleaving of the threads, reads of a
\* child between its two writes included.
C36_SweepDeterministic ==
    SweepEnded => solving.rec = SweepOf(TableBeforeSweep, vi.kind, vi.iteration)

\* C36: without a read of a child between its two writes the sweep leaves
\* that table.
C36_SweepWithoutTornRead ==
    (SweepEnded /\ ~vi.raced) =>
        solving.rec = SweepOf(TableBeforeSweep, vi.kind, vi.iteration)

\* C36: sweep 1 has written win to a position whose child of the same tier
\* it also wrote lose.
C36_TornReadScenario ==
    /\ SweepEnded
    /\ vi.kind = "win_lose"
    /\ vi.iteration = 1
    /\ \E p \in Pos, q \in Pos :
         /\ <<this_tier, q>> \in GetCanonicalChildPositions(<<this_tier, p>>)
         /\ solving.rec[p] = Rec(kWin, 1)
         /\ solving.rec[q] = Rec(kLose, 1)

\* C37: between the calls of a worker that was initialized, its
\* GetCanonicalParentPositions is the one supplied to the most recent
\* TierWorkerInit (NULL if none was supplied), whatever solves succeeded,
\* failed or were skipped before.
C37_CallbackAsSupplied ==
    (pc = "idle" /\ ninits > 0) => current_api = test.supplied

\* C37: the substitute of the reverse graph does not stay installed after
\* a solve.
C37_SubstituteRemoved ==
    (pc = "idle" /\ ninits > 0) => current_api \in {"NULL", test.supplied}

\* C37: a solve has returned with the game's callback cleared.
C37_ClearedCallbackScenario ==
    /\ pc = "idle"
    /\ ncalls > 1
    /\ test.supplied = "game"
    /\ current_api = "NULL"

\* A step in which TierMpiWorkerRecv returns a command; mpi.ncommands
\* counts the commands other than Terminate received so far, and
\* mpi.command is the one received before.
Receives ==
    /\ mpi.at = "recv"
    /\ \/ mpi'.ncommands = mpi.ncommands + 1
       \/ mpi'.at = "returned"

\* C38: in the worker loop sends and receives alternate, beginning with
\* the send of Check: at every receive the worker has sent one message
\* more than it has received, so exactly one since its previous receive,
\* and that message is Check at start-up and after a Sleep and the report
\* of the solve after a Solve or ForceSolve, with no Check after a report;
\* no step sends two messages.
C38_SendsAndReceivesAlternate ==
    [][/\ Receives =>
            /\ Len(mpi.sent) = mpi.ncommands + 1
            /\ LET last == mpi.sent[Len(mpi.sent)]
               IN  IF mpi.ncommands = 0 \/ mpi.command = kTierMpiCommandSleep
                   THEN last = <<"Check">>
                   ELSE last[1] \in {"ReportSolved", "ReportLoaded",
                                     "ReportError"}
       /\ Len(mpi'.sent) <= Len(mpi.sent) + 1
       /\ SubSeq(mpi'.sent, 1, Len(mpi.sent)) = mpi.sent]_vars

\* C38: the loop has returned after a Sleep and a solve whose report was
\* the last message sent.
C38_Witness ==
    /\ mpi.at = "returned"
    /\ Len(mpi.sent) = 3
    /\ mpi.sent[2] = <<"Check">>
    /\ mpi.sent[3] = <<"ReportSolved">>

\* C39: for every piece configuration IsValidPieceConfig accepts, the
\* initial tier of a full board of blanks included, UnhashTier gives back
\* the counts HashTier was given, no other accepted configuration has the
\* same tier, and QuixoGetChildTiers passes its asserts on the tier.
C39_HashTierRoundTrip ==
    (quixo.at \in {"children", "canonical"} /\ quixo.valid) =>
        /\ quixo.decoded = quixo.config
        /\ ~quixo.aborted
        /\ \A d \in ValidPieceConfigs :
             HashTier(d.num_blanks, d.num_x, d.num_o) = quixo.tier
                => d = quixo.config

\* C39: the same for the configurations with fewer blanks than the board
\* has slots, every count being a digit to the base of the board size.
C39_RoundTripBelowBoardSize ==
    (/\ quixo.at \in {"children", "canonical"}
     /\ quixo.valid
     /\ quixo.config.num_blanks < GetBoardSize) =>
        /\ quixo.decoded = quixo.config
        /\ ~quixo.aborted
        /\ \A d \in ValidPieceConfigs :
             HashTier(d.num_blanks, d.num_x, d.num_o) = quixo.tier
                => d = quixo.config

\* C39: the initial tier has been decoded as no blank, one X and no O.
C39_InitialTierScenario ==
    /\ quixo.at = "children"
    /\ quixo.tier = QuixoSetInitialTier
    /\ quixo.decoded = [num_blanks |-> 0, num_x |-> 1, num_o |-> 0]

\* C35: once the value-iteration solver has loaded the child tiers,
\* largest_win_lose_remoteness is the largest remoteness of their win and
\* lose records and largest_tie_remoteness that of their tie records (0 if
\* there are none), whatever the interleaving of the threads of the scan.
C35_ScanFindsMaxima ==
    (pc = "vi3" /\ vi.loaded) =>
        /\ vi.largest_win_lose_remoteness = MaximumRemoteness({kWin, kLose})
        /\ vi.largest_tie_remoteness = MaximumRemoteness({kTie})

\* C35: a scan over two tie records of remoteness 1 and 2 has left 1.
C35_LostStoreScenario ==
    /\ pc = "vi3"
    /\ vi.loaded
    /\ MaximumRemoteness({kTie}) = 2
    /\ vi.largest_tie_remoteness = 1

\* The frontier the claims name for a value.
ClaimedFrontier(value) ==
    IF value = kWin THEN "win" ELSE IF value = kLose THEN "lose" ELSE "tie"

\* The records phase 1 pushes for a non-canonical child tier when it pushes
\* the records of the canonical tier whose value is in `values`: each under
\* the position of the child tier it is symmetric to, with its remoteness
\* and the child tier's index.
ClaimedLoad(values) ==
    {[kind |-> ClaimedFrontier(disk[tiers.canonical].rec[c].value),
      pos |-> tiers.symm[c],
      rmt |-> disk[tiers.canonical].rec[c].remoteness,
      idx |-> CHOOSE i \in 1 .. Len(child_tiers.array) :
                child_tiers.array[i] = ChildTierOf] :
       c \in {d \in SymPos : disk[tiers.canonical].rec[d].value \in values}}

TrueChildCount(p) == Cardinality(game[p].kids) + game[p].more

\* C30 (counter range): a tier scan that succeeds leaves in the cell of
\* every legal canonical non-primitive position the number of canonical
\* children of the position, and that number is between 1 and 254; with a
\* position of no children or of more than 254 the scan fails.
C30_CounterRange ==
    [][(pc = "step3" /\ pc' = "step4") =>
         \A p \in Pos : Inner(p) =>
            /\ TrueChildCount(p) \in 1 .. (UCHAR_MAX - 1)
            /\ num_undecided_children'.cell[p] = TrueChildCount(p)]_vars

\* The same with the range the cell can hold, 1 .. UCHAR_MAX: a count of
\* 256 still passes the scan and is stored as 0.
C30_CounterRangeOfCell ==
    [][(pc = "step3" /\ pc' = "step4") =>
         \A p \in Pos : Inner(p) =>
            /\ TrueChildCount(p) \in 1 .. UCHAR_MAX
            /\ num_undecided_children'.cell[p] = TrueChildCount(p)]_vars

\* A solve has ended without error and left undecided in the database a
\* legal position that has a losing child: its count of 256 children was
\* stored as 0, so the position was neither decided nor marked as draw.
C30_TruncatedCountScenario ==
    /\ pc = "idle"
    /\ ret = kNoError
    /\ hist.flushed
    /\ \E p \in Pos :
          /\ Inner(p)
          /\ TrueChildCount(p) = UCHAR_MAX + 1
          /\ \E k \in game[p].kids : disk[k[1]].rec[k[2]].value = kLose
          /\ disk[1].rec[p].value = kUndecided

\* The tier position a frontier record denotes.
PositionOfRecord(f) == <<child_tiers.array[f.idx], f.pos>>

\* Both loops of Step4PushFrontierUp have ended.
LoopsDone == pc = "step4" /\ ~level.active /\ Reachable = {}

\* C27 (exactly once): in a solve, GetCanonicalParentPositions is called
\* at most once for a position; every record of the bucket being pushed
\* was in it when the push began, and is either still to be taken or has
\* been processed; no record lies in a bucket pushed before; when the
\* loops have ended no record is left in a frontier and the function has
\* been called exactly once for every position of the tier and of the
\* child tier that is recorded as win, lose or tie.
C27_ProcessedOnce ==
    pc = "step4" =>
      /\ \A tp \in AllTP : hist.calls[tp] <= 1
      /\ \A f \in frontier :
            /\ hist.calls[PositionOfRecord(f)] = 1 =>
                  (level.active /\ f.kind = level.kind /\ f.rmt = level.r)
            /\ (level.active /\ f.kind = level.kind /\ f.rmt = level.r) =>
                  (f \in pending \/ hist.calls[PositionOfRecord(f)] = 1)
      /\ LoopsDone =>
            /\ frontier = {}
            /\ \A tp \in {q \in AllTP : q[2] < GetTierSize(q[1])} :
                  hist.calls[tp] =
                    (IF RecordOf(tp).value \in {kWin, kLose, kTie} THEN 1 ELSE 0)

\* The loops have ended and a record of remoteness above kRemotenessMax
\* was never processed.
C27_LeftBeyondLastBucket ==
    /\ LoopsDone
    /\ \E f \in frontier : f.rmt > kRemotenessMax

\* C28 (buckets): each record in bucket r of a win, lose or tie frontier
\* denotes a position recorded as win, lose or tie with remoteness r; no
\* record of a drawing or undecided position is in a frontier.
C28_BucketContent ==
    \A f \in frontier :
        LET rec == RecordOf(<<child_tiers.array[f.idx], f.pos>>)
        IN  /\ f.kind \in {"win", "lose", "tie"}
            /\ f.kind = "win" => rec.value = kWin
            /\ f.kind = "lose" => rec.value = kLose
            /\ f.kind = "tie" => rec.value = kTie
            /\ rec.remoteness = f.rmt

\* The frontiers hold a record loaded from the child tier, a primitive
\* position of the tier and a parent decided in phase 4.
C28_Witness ==
    /\ pc = "step4"
    /\ \E f, g, h \in frontier :
         /\ child_tiers.array[f.idx] = ChildTierOf
         /\ child_tiers.array[g.idx] = this_tier /\ g.rmt = 0
         /\ child_tiers.array[h.idx] = this_tier /\ h.rmt = 2

\* The checks the claim applies to a sampled position, in its order; the
\* two reciprocity checks only when `has_parents`.
ClaimedChecks(call, position, has_parents) ==
    <<TestTierSymmetryRemoval(call.tier, position, GetCanonicalTier(call.tier)),
      TestChildPositions(call.tier, position, call.tier_size)>>
    \o (IF has_parents
        THEN <<TestChildToParentMatching(call.tier, position),
               TestParentToChildMatching(call.tier, position,
                                         call.parent_tiers)>>
        ELSE <<>>)

\* The sampled positions of a call, by sample number, that are legal and
\* not primitive and fail a check.
ClaimedFailing(call, has_parents) ==
    {k \in 1 .. SampleSize(call) :
       LET position == k - 1
           checks == ClaimedChecks(call, position, has_parents)
       IN  /\ game[TestPositionOf(position)].legal
           /\ game[TestPositionOf(position)].prim = kUndecided
           /\ \E i \in 1 .. Len(checks) : checks[i] # kTierSolverTestNoError}

\* The result the claim gives a call on a tier of at most kTestSizeMax
\* positions.
ClaimedResult(call, has_parents) ==
    LET failing == ClaimedFailing(call, has_parents)
        k == CHOOSE i \in failing : \A j \in failing : i <= j
        checks == ClaimedChecks(call, k - 1, has_parents)
        first == CHOOSE i \in 1 .. Len(checks) :
                   /\ checks[i] # kTierSolverTestNoError
                   /\ \A j \in 1 .. (i - 1) : checks[j] = kTierSolverTestNoError
    IN  IF failing = {} THEN kTierSolverTestNoError ELSE checks[first]

\* C21 (first error): TierWorkerTest returns the error of the first failing
\* check of the first failing sampled position, the checks being ordered
\* tier symmetry, child legality, child-to-parent, parent-to-child, the
\* last two applied when the game supplies GetCanonicalParentPositions;
\* illegal and primitive positions are skipped; the result is NoError iff
\* no sampled legal non-primitive position fails an applicable check.
C21_FirstFailingCheck ==
    \A call \in TestCalls :
        call.result = ClaimedResult(call, call.supplied # "NULL")

\* The same with the reciprocity checks applied when current_api holds a
\* GetCanonicalParentPositions at the time of the call.
C21_FirstFailingCheckInstalled ==
    \A call \in TestCalls :
        call.result = ClaimedResult(call, call.api # "NULL")

\* A call made while current_api had lost the game's
\* GetCanonicalParentPositions returned NoError on a tier with a position
\* that fails a reciprocity check.
C21_LostCallbackScenario ==
    \E call \in TestCalls :
        /\ call.supplied = "game"
        /\ call.api = "NULL"
        /\ call.result = kTierSolverTestNoError
        /\ ClaimedResult(call, TRUE) # kTierSolverTestNoError

=============================================================================
